---- MODULE Spec2Model ----
(***************************************************************************)
(* State-machine model of the zk-verifier contract                         *)
(* (contracts/zk-verifier/src/{lib,storage,verifier,types,events}.rs).     *)
(*                                                                         *)
(* Every public entry point is one action.  A panic (ContractError::panic) *)
(* aborts the transaction: the host rolls back every write and discards    *)
(* the logs, so a failing call leaves the contract state unchanged; the    *)
(* call and its error are recorded in `last`, the observation of the most  *)
(* recent call (operation, error, verdict, return value, events logged).   *)
(*                                                                         *)
(* BN254 is replaced by a curve small enough to enumerate: y^2 = x^3 + 3   *)
(* over F_7, whose group has prime order 13, with F_49 = F_7[u]/(u^2+1) as *)
(* the coordinate field of G2.  The curve over F_49 has 39 points, so G2   *)
(* has cofactor 3 and the subgroup check is not vacuous.  The pairing is   *)
(* the bilinear map e(aG, bG) = ab (mod 13), written additively.           *)
(*                                                                         *)
(* The async-ai-processor, grant-registry and shade-agent-registry         *)
(* contracts are modelled the same way, each as one record-valued variable *)
(* (`processor`, `registry`, `agents`) with its own actions and            *)
(* specifications; the contracts do not call each other.                   *)
(***************************************************************************)
EXTENDS Integers, Sequences, FiniteSets, TLC

\* ------------------------------------------------------------------------
\* Bounds of the exploration
\* ------------------------------------------------------------------------
\* Spec: stores, verify_proof calls and tombstones
MaxNonce == 1
MaxVerifications == 1
MaxRevoked == 1
\* SpecStore: stores, verify_proof calls and tombstones
MaxStored == 2
MaxStoreVerifications == 2
MaxStoreRevoked == 1
\* SpecOwnership: stores, verify_proof calls and tombstones
MaxOwnershipStored == 1
MaxOwnershipVerifications == 1
MaxOwnershipRevoked == 1
\* SpecClock: stores, verify_proof calls, tombstones and clock ticks
MaxClockStored == 1
MaxClockVerifications == 1
MaxClockRevoked == 1
MaxTicks == 3
\* SpecPages: the pages of get_credentials_by_owner
MaxPageStored == 2
MaxPageVerifications == 2
MaxPageRevoked == 1
\* SpecOrder: the order of one owner's credentials
MaxOrderStored == 3
MaxOrderVerifications == 3
MaxOrderRevoked == 1
\* SpecKeys: the verification keys of two circuit types
MaxKeyStored == 1
MaxKeyVerifications == 1
MaxKeyRevoked == 1
\* SpecVerifier: the verifier on tampered and malformed requests
MaxVerifierStored == 1
MaxVerifierVerifications == 1
MaxVerifierRevoked == 1
\* SpecJobs: jobs submitted to the async-ai-processor
MaxJobs == 1
MaxJobTicks == 1
\* SpecQueue: jobs queued at the async-ai-processor
MaxQueueJobs == 2
\* SpecLimit: jobs submitted under a limit of one active job per account
MaxLimitJobs == 2
\* SpecGrants: the fundings counted by the grant-registry
MaxFundedCount == 2
\* SpecAgents: the invocations recorded for one agent instance
MaxInvocations == 1

\* ------------------------------------------------------------------------
\* Program constants
\* ------------------------------------------------------------------------
\* 30 days in seconds (types.rs:115)
DEFAULT_EXPIRATION_SECS == 2592000
\* 0.01 NEAR; the unit of every deposit in this model is 10^21 yoctoNEAR
DEFAULT_STORAGE_COST == 10
\* u64 values live in 0 .. U64_RANGE - 1: the range 2^64 of the program,
\* scaled down to 2^30 so that sums stay within the checker's integers
U64_RANGE == 1073741824
\* the block time advances in steps of half a second
TickNanos == 500000000
\* limit.unwrap_or(50) (lib.rs:334)
DEFAULT_PAGE_LIMIT == 50
\* block_timestamp is in nanoseconds (lib.rs:223, storage.rs:69)
NANOS_PER_SEC == 1000000000
\* order of the base field and of the scalar field of the small curve
Q == 7
R == 13

Accounts == {"owner.testnet", "alice.testnet", "bob.testnet"}
InitialOwner == "owner.testnet"

CircuitType == {"VerifiedBuilder", "GrantTrackRecord", "TeamAttestation"}

as_key(ct) ==
  CASE ct = "VerifiedBuilder" -> "verified-builder"
    [] ct = "GrantTrackRecord" -> "grant-track-record"
    [] ct = "TeamAttestation" -> "team-attestation"

\* Option<T>: None is the empty sequence, Some(x) the one-element sequence
None == <<>>
Some(x) == <<x>>
IsSome(o) == Len(o) = 1
Unwrap(o) == o[1]

\* ------------------------------------------------------------------------
\* Field & point parser (verifier.rs)
\* A decimal string is modelled by the integer it denotes; -1 stands for a
\* string that is not a decimal numeral.
\* ------------------------------------------------------------------------
\* F::from_str of ark_ff::PrimeField reads the numeral digit by digit in the
\* arithmetic of the field: the element it returns is the value of the
\* numeral modulo the field's modulus
parse_field_element(s, modulus) ==
  IF s >= 0 THEN Some(s % modulus) ELSE None

\* multiples 1G .. 12G of the generator G = (1, 2)
GeneratorMultiples ==
  << <<1, 2>>, <<6, 3>>, <<2, 2>>, <<4, 5>>, <<3, 3>>, <<5, 3>>,
     <<5, 4>>, <<3, 4>>, <<4, 2>>, <<2, 5>>, <<6, 4>>, <<1, 5>> >>

\* discrete logarithm of a point of the order-13 group
DLog(p) == CHOOSE k \in 1..(R - 1) : GeneratorMultiples[k] = p

\* the same for a point of the subgroup of the curve over Fq2
G2DLog(p) == DLog(<<p[1][1], p[2][1]>>)

g1_is_on_curve(x, y) == (y * y) % Q = (x * x * x + 3) % Q

\* Fq2 = Fq[u]/(u^2 + 1); an element is <<c0, c1>>
Fq2Mul(a, b) ==
  << (a[1] * b[1] + (Q * Q - a[2] * b[2])) % Q, (a[1] * b[2] + a[2] * b[1]) % Q >>
Fq2Add(a, b) == << (a[1] + b[1]) % Q, (a[2] + b[2]) % Q >>

g2_is_on_curve(x, y) ==
  Fq2Mul(y, y) = Fq2Add(Fq2Mul(x, Fq2Mul(x, x)), <<3, 0>>)

\* the points of order 13 of the curve over Fq2 are those defined over Fq
g2_is_in_correct_subgroup(x, y) ==
  /\ x[2] = 0 /\ y[2] = 0
  /\ \E k \in 1..(R - 1) : GeneratorMultiples[k] = <<x[1], y[1]>>

\* Result<G1Affine>: None is Err(InvalidProofFormat), Some(<<x, y>>) is Ok
parse_g1_point(coords) ==
  IF Len(coords) < 2 THEN None
  ELSE LET x == parse_field_element(coords[1], Q)
           y == parse_field_element(coords[2], Q)
       IN  IF ~IsSome(x) \/ ~IsSome(y) THEN None
           ELSE IF ~g1_is_on_curve(Unwrap(x), Unwrap(y)) THEN None
           ELSE Some(<<Unwrap(x), Unwrap(y)>>)

\* a variant that reads each wire pair as [c0, c1]
parse_g2_point_unswapped(coords) ==
  IF Len(coords) < 2 THEN None
  ELSE IF Len(coords[1]) < 2 \/ Len(coords[2]) < 2 THEN None
  ELSE LET x_c0 == parse_field_element(coords[1][1], Q)
           x_c1 == parse_field_element(coords[1][2], Q)
           y_c0 == parse_field_element(coords[2][1], Q)
           y_c1 == parse_field_element(coords[2][2], Q)
       IN  IF ~IsSome(x_c1) \/ ~IsSome(x_c0) \/ ~IsSome(y_c1) \/ ~IsSome(y_c0)
           THEN None
           ELSE LET x == <<Unwrap(x_c0), Unwrap(x_c1)>>
                    y == <<Unwrap(y_c0), Unwrap(y_c1)>>
                IN  IF ~g2_is_on_curve(x, y) THEN None
                    ELSE IF ~g2_is_in_correct_subgroup(x, y) THEN None
                    ELSE Some(<<x, y>>)

\* Result<G2Affine>, a point <<x, y>> of two Fq2 elements; the wire pair is
\* [c1, c0], the element is (c0, c1)
parse_g2_point(coords) ==
  IF Len(coords) < 2 THEN None
  ELSE IF Len(coords[1]) < 2 \/ Len(coords[2]) < 2 THEN None
  ELSE LET x_c1 == parse_field_element(coords[1][1], Q)
           x_c0 == parse_field_element(coords[1][2], Q)
           y_c1 == parse_field_element(coords[2][1], Q)
           y_c0 == parse_field_element(coords[2][2], Q)
       IN  IF ~IsSome(x_c1) \/ ~IsSome(x_c0) \/ ~IsSome(y_c1) \/ ~IsSome(y_c0)
           THEN None
           ELSE LET x == <<Unwrap(x_c0), Unwrap(x_c1)>>
                    y == <<Unwrap(y_c0), Unwrap(y_c1)>>
                IN  IF ~g2_is_on_curve(x, y) THEN None
                    ELSE IF ~g2_is_in_correct_subgroup(x, y) THEN None
                    ELSE Some(<<x, y>>)

\* g2_to_strings: a point <<x, y>> in the wire convention, each Fq2 element
\* (c0, c1) written as the pair [c1, c0]
g2_to_strings(point) ==
  << <<point[1][2], point[1][1]>>, <<point[2][2], point[2][1]>> >>

\* ------------------------------------------------------------------------
\* Groth16 pairing verifier (verifier.rs)
\* ------------------------------------------------------------------------
RECURSIVE AllParsed(_)
AllParsed(points) ==
  IF points = <<>> THEN TRUE
  ELSE IsSome(parse_g1_point(Head(points))) /\ AllParsed(Tail(points))

RECURSIVE AllSignalsParsed(_)
AllSignalsParsed(signals) ==
  IF signals = <<>> THEN TRUE
  ELSE IsSome(parse_field_element(Head(signals), R)) /\ AllSignalsParsed(Tail(signals))

\* vk_x = IC[0] + sum(public_signals[i] * IC[i+1]), as a multiple of G
RECURSIVE LinearCombination(_, _, _)
LinearCombination(ic, signals, i) ==
  IF i > Len(signals) THEN 0
  ELSE (signals[i] * DLog(Unwrap(parse_g1_point(ic[i + 1])))
        + LinearCombination(ic, signals, i + 1)) % R

vk_x(ic, signals) ==
  (DLog(Unwrap(parse_g1_point(ic[1]))) + LinearCombination(ic, signals, 1)) % R

\* e(-A, B) * e(alpha, beta) * e(vk_x, gamma) * e(C, delta) == 1
multi_pairing_is_zero(a, b, alpha, beta, vkx, gamma, c, delta) ==
  ((R - DLog(a)) * G2DLog(b) + DLog(alpha) * G2DLog(beta)
     + vkx * G2DLog(gamma) + DLog(c) * G2DLog(delta)) % R = 0

\* a variant that parses the points before it compares the lengths
verify_groth16_proof_parsing_first(vk, proof, public_signals) ==
  IF ~IsSome(parse_g1_point(proof.pi_a)) THEN "InvalidProofFormat"
  ELSE IF ~IsSome(parse_g2_point(proof.pi_b)) THEN "InvalidProofFormat"
  ELSE IF ~IsSome(parse_g1_point(proof.pi_c)) THEN "InvalidProofFormat"
  ELSE IF ~IsSome(parse_g1_point(vk.alpha)) THEN "InvalidProofFormat"
  ELSE IF ~IsSome(parse_g2_point(vk.beta)) THEN "InvalidProofFormat"
  ELSE IF ~IsSome(parse_g2_point(vk.gamma)) THEN "InvalidProofFormat"
  ELSE IF ~IsSome(parse_g2_point(vk.delta)) THEN "InvalidProofFormat"
  ELSE IF ~AllParsed(vk.ic) THEN "InvalidProofFormat"
  ELSE IF Len(vk.ic) # Len(public_signals) + 1 THEN "InvalidPublicSignals"
  ELSE IF ~AllSignalsParsed(public_signals) THEN "InvalidProofFormat"
  ELSE IF multi_pairing_is_zero(
            Unwrap(parse_g1_point(proof.pi_a)), Unwrap(parse_g2_point(proof.pi_b)),
            Unwrap(parse_g1_point(vk.alpha)), Unwrap(parse_g2_point(vk.beta)),
            vk_x(vk.ic, public_signals), Unwrap(parse_g2_point(vk.gamma)),
            Unwrap(parse_g1_point(proof.pi_c)), Unwrap(parse_g2_point(vk.delta)))
       THEN "true"
       ELSE "false"

\* Result<bool, ContractError> as one of
\* "true", "false", "InvalidPublicSignals", "InvalidProofFormat"
verify_groth16_proof(vk, proof, public_signals) ==
  IF Len(vk.ic) # Len(public_signals) + 1 THEN "InvalidPublicSignals"
  ELSE IF ~IsSome(parse_g1_point(proof.pi_a)) THEN "InvalidProofFormat"
  ELSE IF ~IsSome(parse_g2_point(proof.pi_b)) THEN "InvalidProofFormat"
  ELSE IF ~IsSome(parse_g1_point(proof.pi_c)) THEN "InvalidProofFormat"
  ELSE IF ~IsSome(parse_g1_point(vk.alpha)) THEN "InvalidProofFormat"
  ELSE IF ~IsSome(parse_g2_point(vk.beta)) THEN "InvalidProofFormat"
  ELSE IF ~IsSome(parse_g2_point(vk.gamma)) THEN "InvalidProofFormat"
  ELSE IF ~IsSome(parse_g2_point(vk.delta)) THEN "InvalidProofFormat"
  ELSE IF ~AllParsed(vk.ic) THEN "InvalidProofFormat"
  ELSE IF ~AllSignalsParsed(public_signals) THEN "InvalidProofFormat"
  ELSE IF multi_pairing_is_zero(
            Unwrap(parse_g1_point(proof.pi_a)), Unwrap(parse_g2_point(proof.pi_b)),
            Unwrap(parse_g1_point(vk.alpha)), Unwrap(parse_g2_point(vk.beta)),
            vk_x(vk.ic, public_signals), Unwrap(parse_g2_point(vk.gamma)),
            Unwrap(parse_g1_point(proof.pi_c)), Unwrap(parse_g2_point(vk.delta)))
       THEN "true"
       ELSE "false"

\* ------------------------------------------------------------------------
\* Inputs offered by the environment
\* ------------------------------------------------------------------------
\* alpha = 2G, beta = 3G, gamma = 5G, delta = 7G, IC = [4G, 6G]: one public input
VK1 ==
  [alpha |-> <<6, 3>>,
   beta |-> << <<0, 2>>, <<0, 2>> >>,
   gamma |-> << <<0, 3>>, <<0, 3>> >>,
   delta |-> << <<0, 5>>, <<0, 4>> >>,
   ic |-> << <<4, 5>>, <<5, 3>> >>]
\* a key whose IC array is empty
VKEmptyIC == [VK1 EXCEPT !.ic = <<>>]
VerificationKeys == {VK1, VKEmptyIC}
\* VK1 with alpha = 3G: a second key of the same arity
VK2 == [VK1 EXCEPT !.alpha = <<2, 2>>]
\* the keys installed where keys are replaced
KeyCases == {VK1, VK2, VKEmptyIC}

\* A = G, B = G, C = 8G satisfies the equation under VK1 with signal 9
ProofValid1 ==
  [pi_a |-> <<1, 2, 1>>,
   pi_b |-> << <<0, 1>>, <<0, 2>>, <<1, 0>> >>,
   pi_c |-> <<3, 4, 1>>]
\* (1, 3) is not on the curve
ProofOffCurve == [ProofValid1 EXCEPT !.pi_a = <<1, 3, 1>>]

\* the proofs submitted, each with its public signals: the valid one, a wrong
\* signal, a point off the curve, and a signal list of the wrong length
ProofCases ==
  {[proof |-> ProofValid1, public_signals |-> <<9>>],
   [proof |-> ProofValid1, public_signals |-> <<10>>],
   [proof |-> ProofOffCurve, public_signals |-> <<9>>],
   [proof |-> ProofValid1, public_signals |-> <<>>]}

\* the strings put in place of a coordinate or of a signal: no numeral, the
\* values below the modulus, and as many values from the modulus on
CoordinateStrings == (-1)..(2 * Q - 1)
SignalStrings == (-1)..(2 * R - 1)

\* ProofValid1 with one affine coordinate of one point replaced
TamperedProofs ==
  ({[ProofValid1 EXCEPT !.pi_a[i] = v] : i \in 1..2, v \in CoordinateStrings}
     \cup {[ProofValid1 EXCEPT !.pi_c[i] = v] : i \in 1..2, v \in CoordinateStrings}
     \cup {[ProofValid1 EXCEPT !.pi_b[i][j] = v] :
             i \in 1..2, j \in 1..2, v \in CoordinateStrings})
    \ {ProofValid1}

\* (0, 2u) is on the curve over Fq2 and has order 3
ProofOffSubgroup == [ProofValid1 EXCEPT !.pi_b = << <<0, 0>>, <<2, 0>>, <<1, 0>> >>]
\* points with too few coordinates
ProofShortG1 == [ProofValid1 EXCEPT !.pi_a = <<1>>]
ProofOnePair == [ProofValid1 EXCEPT !.pi_b = << <<0, 1>> >>]
ProofShortPair == [ProofValid1 EXCEPT !.pi_b = << <<0>>, <<0, 2>>, <<1, 0>> >>]

\* the requests of the verifier's specification: the valid one, one
\* coordinate replaced, the signal replaced, malformed points, and malformed
\* points under a signal list of the wrong length
VerifierCases ==
  {[proof |-> ProofValid1, public_signals |-> <<9>>]}
    \cup {[proof |-> p, public_signals |-> <<9>>] : p \in TamperedProofs}
    \cup {[proof |-> ProofValid1, public_signals |-> <<s>>] : s \in SignalStrings}
    \cup {[proof |-> p, public_signals |-> sigs] :
            p \in {ProofOffSubgroup, ProofShortG1, ProofOnePair, ProofShortPair,
                   ProofOffCurve, ProofValid1},
            sigs \in {<<>>, <<9>>, <<9, 9>>, <<-1>>, <<-1, 9>>}}

\* keys with a malformed point: alpha off the curve, beta outside the subgroup
VKOffCurve == [VK1 EXCEPT !.alpha = <<6, 2>>]
VKOffSubgroup == [VK1 EXCEPT !.beta = << <<0, 0>>, <<2, 0>> >>]
VerifierKeys == {VK1, VKOffCurve, VKOffSubgroup}

Deposits == {DEFAULT_STORAGE_COST - 1, DEFAULT_STORAGE_COST}
Reasons == {"test"}
\* two reasons, for calls that differ in the reason only
RevocationReasons == {"test", "fraud"}

\* verify_groth16_proof tabulated over the keys and proofs above: the verifier
\* is a pure function, so each call is a lookup of its result
VerifierResults ==
  [vk \in VerificationKeys \cup KeyCases \cup VerifierKeys |->
     [pc \in ProofCases \cup VerifierCases |-> verify_groth16_proof(vk, pc.proof, pc.public_signals)]]

verifier_result(vk, proof, public_signals) ==
  VerifierResults[vk][[proof |-> proof, public_signals |-> public_signals]]

\* ------------------------------------------------------------------------
\* Contract state (lib.rs:27-56) and the host environment
\* ------------------------------------------------------------------------
VARIABLES
  owner, proposed_owner, admins, is_paused, default_expiration_secs,
  storage_cost_per_credential, verification_keys, credentials,
  credentials_by_owner, total_verifications, total_credentials, vk_count,
  credential_nonce, revoked_credentials,
  block_timestamp,   \* env::block_timestamp(), nanoseconds
  last,              \* the most recent call and what the caller observed
  processor,         \* the AsyncAIProcessor contract (async-ai-processor)
  registry,          \* the GrantRegistry contract (grant-registry)
  agents             \* the ShadeAgentRegistry contract (shade-agent-registry)

state ==
  <<owner, proposed_owner, admins, is_paused, default_expiration_secs,
    storage_cost_per_credential, verification_keys, credentials,
    credentials_by_owner, total_verifications, total_credentials, vk_count,
    credential_nonce, revoked_credentials>>

\* the contracts deployed next to the zk-verifier
other_contracts == <<processor, registry, agents>>

vars == <<state, block_timestamp, last, other_contracts>>

\* "cred-" || hex(sha256("{owner}:{circuit_type}:{nonce}")[..16]); the digest
\* is modelled by its preimage, SHA-256 being collision free on these inputs
generate_credential_id(cred_owner, circuit_type, nonce) ==
  <<cred_owner, as_key(circuit_type), nonce>>

\* an id that verify_proof never derives ("cred-fake")
FakeId == <<"nobody", "fake", 0>>

now_secs == block_timestamp \div NANOS_PER_SEC

Observation(op) ==
  [op |-> op, err |-> "none",
   verdict |-> "none", valid |-> FALSE, credential_id |-> None,
   removed |-> FALSE, events |-> <<>>]

\* ContractError::panic: the transaction aborts and the host rolls back
Panic(obs, err) ==
  /\ last' = [obs EXCEPT !.err = err]
  /\ UNCHANGED state

\* ------------------------------------------------------------------------
\* async-ai-processor: configuration and construction
\* (contracts/async-ai-processor/src/{lib,storage,types}.rs).
\* Deposits are counted in units of 10^21 yoctoNEAR and times in units of
\* TickNanos nanoseconds, the step of the block clock.
\* ------------------------------------------------------------------------
\* 0.01 NEAR
DEFAULT_MIN_DEPOSIT == 10
DEFAULT_MAX_ACTIVE_JOBS == 5
\* ten minutes
DEFAULT_JOB_TIMEOUT_NS == 1200

DefaultConfig ==
  [min_deposit |-> DEFAULT_MIN_DEPOSIT,
   max_active_jobs_per_user |-> DEFAULT_MAX_ACTIVE_JOBS,
   job_timeout_ns |-> DEFAULT_JOB_TIMEOUT_NS]

NewProcessor ==
  [owner |-> InitialOwner, is_paused |-> FALSE, jobs |-> <<>>,
   jobs_by_owner |-> <<>>, pending_jobs |-> <<>>, workers |-> {},
   job_nonce |-> 0, total_jobs |-> 0, completed_jobs |-> 0,
   failed_jobs |-> 0, worker_count |-> 0, config |-> DefaultConfig]

\* ------------------------------------------------------------------------
\* grant-registry and shade-agent-registry: construction
\* (contracts/grant-registry/src/lib.rs:55-78,
\*  contracts/shade-agent-registry/src/lib.rs:50-66)
\* ------------------------------------------------------------------------
NewGrantRegistry ==
  [owner |-> InitialOwner, is_paused |-> FALSE, programs |-> <<>>,
   projects |-> <<>>, applications |-> <<>>,
   applications_by_project |-> <<>>, applications_by_program |-> <<>>,
   projects_by_owner |-> <<>>, total_programs |-> 0, total_projects |-> 0,
   total_applications |-> 0, total_funded |-> 0, active_programs |-> 0]

NewShadeAgentRegistry ==
  [owner |-> InitialOwner, is_paused |-> FALSE, templates |-> <<>>,
   instances |-> <<>>, instances_by_owner |-> <<>>,
   verified_codehashes |-> {}, total_templates |-> 0,
   total_deployments |-> 0]

Init ==
  /\ owner = InitialOwner
  /\ proposed_owner = None
  /\ admins = {}
  /\ is_paused = FALSE
  /\ default_expiration_secs = DEFAULT_EXPIRATION_SECS
  /\ storage_cost_per_credential = DEFAULT_STORAGE_COST
  /\ verification_keys = <<>>
  /\ credentials = <<>>
  /\ credentials_by_owner = <<>>
  /\ total_verifications = 0
  /\ total_credentials = 0
  /\ vk_count = 0
  /\ credential_nonce = 0
  /\ revoked_credentials = {}
  /\ block_timestamp = 0
  /\ last = Observation("new")
  /\ processor = NewProcessor
  /\ registry = NewGrantRegistry
  /\ agents = NewShadeAgentRegistry

\* ------------------------------------------------------------------------
\* Guards (lib.rs:428-445)
\* ------------------------------------------------------------------------
\* a variant that lets the admins pass the owner's guard
is_owner_or_in_admins(caller) == caller = owner \/ caller \in admins

is_owner(caller) == caller = owner
\* a variant that lets every caller pass
is_anyone(caller) == TRUE

is_owner_or_admin(caller) == caller = owner \/ caller \in admins

\* ------------------------------------------------------------------------
\* Maps and sets of near_sdk::store
\* ------------------------------------------------------------------------
MapInsert(m, k, v) == [x \in DOMAIN m \cup {k} |-> IF x = k THEN v ELSE m[x]]
MapRemove(m, k) == [x \in DOMAIN m \ {k} |-> m[x]]

SeqContains(s, x) == \E i \in 1..Len(s) : s[i] = x
\* IterableSet::insert appends unless the element is present
SetInsert(s, x) == IF SeqContains(s, x) THEN s ELSE Append(s, x)
\* IterableSet::remove is a swap_remove: the last element takes the slot
SetRemove(s, x) ==
  IF ~SeqContains(s, x) THEN s
  ELSE LET i == CHOOSE j \in 1..Len(s) : s[j] = x
       IN  [j \in 1..(Len(s) - 1) |-> IF j = i THEN s[Len(s)] ELSE s[j]]

\* ------------------------------------------------------------------------
\* Events (events.rs): the EVENT_JSON lines logged by a call, in order
\* ------------------------------------------------------------------------
emit_verification_key_set(circuit_type, updated) ==
  [event |-> "verification_key_set", circuit_type |-> circuit_type, updated |-> updated]
emit_proof_verified(circuit_type, valid, credential_id) ==
  [event |-> "proof_verified", circuit_type |-> circuit_type, valid |-> valid,
   credential_id |-> credential_id]
emit_credential_stored(credential_id, cred_owner, circuit_type, expires_at) ==
  [event |-> "credential_stored", credential_id |-> credential_id,
   owner |-> cred_owner, circuit_type |-> circuit_type, expires_at |-> expires_at]
emit_credential_removed(credential_id, removed_by) ==
  [event |-> "credential_removed", credential_id |-> credential_id,
   removed_by |-> removed_by]
emit_credential_revoked(credential_id, revoked_by, reason) ==
  [event |-> "credential_revoked", credential_id |-> credential_id,
   revoked_by |-> revoked_by, reason |-> reason]
emit_contract_paused(paused) == [event |-> "contract_paused", paused |-> paused]
emit_ownership_proposed(current_owner, new_owner) ==
  [event |-> "ownership_proposed", current_owner |-> current_owner,
   proposed_owner |-> new_owner]
emit_ownership_transferred(old_owner, new_owner) ==
  [event |-> "ownership_transferred", old_owner |-> old_owner, new_owner |-> new_owner]
emit_admin_added(account) == [event |-> "admin_added", account |-> account]
emit_admin_removed(account) == [event |-> "admin_removed", account |-> account]

\* ------------------------------------------------------------------------
\* Admin methods (lib.rs:95-172)
\* ------------------------------------------------------------------------
\* a variant without the validation of the IC array
SetVerificationKeyUnvalidated(caller, circuit_type, vk) ==
  LET obs == Observation("set_verification_key")
      key == as_key(circuit_type)
      is_new == key \notin DOMAIN verification_keys
  IN  IF ~is_owner_or_admin(caller) THEN Panic(obs, "Unauthorized")
      ELSE IF is_paused THEN Panic(obs, "ContractPaused")
      ELSE /\ verification_keys' = MapInsert(verification_keys, key, vk)
           /\ vk_count' = IF is_new THEN vk_count + 1 ELSE vk_count
           /\ last' = [obs EXCEPT !.events = <<emit_verification_key_set(key, ~is_new)>>]
           /\ UNCHANGED <<owner, proposed_owner, admins, is_paused,
                          default_expiration_secs, storage_cost_per_credential,
                          credentials, credentials_by_owner, total_verifications,
                          total_credentials, credential_nonce, revoked_credentials>>

\* a variant that counts every installation, replacements included
SetVerificationKeyCounting(caller, circuit_type, vk) ==
  LET obs == Observation("set_verification_key")
      key == as_key(circuit_type)
      is_new == key \notin DOMAIN verification_keys
  IN  IF ~is_owner_or_admin(caller) THEN Panic(obs, "Unauthorized")
      ELSE IF is_paused THEN Panic(obs, "ContractPaused")
      ELSE IF vk.ic = <<>> THEN Panic(obs, "InvalidVerificationKey")
      ELSE /\ verification_keys' = MapInsert(verification_keys, key, vk)
           /\ vk_count' = vk_count + 1
           /\ last' = [obs EXCEPT !.events = <<emit_verification_key_set(key, ~is_new)>>]
           /\ UNCHANGED <<owner, proposed_owner, admins, is_paused,
                          default_expiration_secs, storage_cost_per_credential,
                          credentials, credentials_by_owner, total_verifications,
                          total_credentials, credential_nonce, revoked_credentials>>

SetVerificationKey(caller, circuit_type, vk) ==
  LET obs == Observation("set_verification_key")
      key == as_key(circuit_type)
      is_new == key \notin DOMAIN verification_keys
  IN  IF ~is_owner_or_admin(caller) THEN Panic(obs, "Unauthorized")
      ELSE IF is_paused THEN Panic(obs, "ContractPaused")
      ELSE IF vk.ic = <<>> THEN Panic(obs, "InvalidVerificationKey")
      ELSE /\ verification_keys' = MapInsert(verification_keys, key, vk)
           /\ vk_count' = IF is_new THEN vk_count + 1 ELSE vk_count
           /\ last' = [obs EXCEPT !.events = <<emit_verification_key_set(key, ~is_new)>>]
           /\ UNCHANGED <<owner, proposed_owner, admins, is_paused,
                          default_expiration_secs, storage_cost_per_credential,
                          credentials, credentials_by_owner, total_verifications,
                          total_credentials, credential_nonce, revoked_credentials>>

SetPaused(caller, paused) ==
  LET obs == Observation("set_paused")
  IN  IF ~is_owner(caller) THEN Panic(obs, "Unauthorized")
      ELSE /\ is_paused' = paused
           /\ last' = [obs EXCEPT !.events = <<emit_contract_paused(paused)>>]
           /\ UNCHANGED <<owner, proposed_owner, admins, default_expiration_secs,
                          storage_cost_per_credential, verification_keys,
                          credentials, credentials_by_owner, total_verifications,
                          total_credentials, vk_count, credential_nonce,
                          revoked_credentials>>

\* a variant that keeps a pending proposal instead of replacing it
ProposeOwnerKeepingPending(caller, new_owner) ==
  LET obs == Observation("propose_owner")
  IN  IF ~is_owner(caller) THEN Panic(obs, "Unauthorized")
      ELSE /\ proposed_owner' = IF IsSome(proposed_owner) THEN proposed_owner
                                 ELSE Some(new_owner)
           /\ last' = [obs EXCEPT !.events = <<emit_ownership_proposed(owner, new_owner)>>]
           /\ UNCHANGED <<owner, admins, is_paused, default_expiration_secs,
                          storage_cost_per_credential, verification_keys,
                          credentials, credentials_by_owner, total_verifications,
                          total_credentials, vk_count, credential_nonce,
                          revoked_credentials>>

ProposeOwner(caller, new_owner) ==
  LET obs == Observation("propose_owner")
  IN  IF ~is_owner(caller) THEN Panic(obs, "Unauthorized")
      ELSE /\ proposed_owner' = Some(new_owner)
           /\ last' = [obs EXCEPT !.events = <<emit_ownership_proposed(owner, new_owner)>>]
           /\ UNCHANGED <<owner, admins, is_paused, default_expiration_secs,
                          storage_cost_per_credential, verification_keys,
                          credentials, credentials_by_owner, total_verifications,
                          total_credentials, vk_count, credential_nonce,
                          revoked_credentials>>

\* a variant gated by the pause flag
AcceptOwnershipUnlessPaused(caller) ==
  LET obs == Observation("accept_ownership")
  IN  IF is_paused THEN Panic(obs, "ContractPaused")
      ELSE IF proposed_owner # Some(caller) THEN Panic(obs, "Unauthorized")
      ELSE /\ owner' = caller
           /\ proposed_owner' = None
           /\ last' = [obs EXCEPT !.events = <<emit_ownership_transferred(owner, caller)>>]
           /\ UNCHANGED <<admins, is_paused, default_expiration_secs,
                          storage_cost_per_credential, verification_keys,
                          credentials, credentials_by_owner, total_verifications,
                          total_credentials, vk_count, credential_nonce,
                          revoked_credentials>>

AcceptOwnership(caller) ==
  LET obs == Observation("accept_ownership")
  IN  IF ~IsSome(proposed_owner) THEN Panic(obs, "Unauthorized")
      ELSE IF caller # Unwrap(proposed_owner) THEN Panic(obs, "Unauthorized")
      ELSE /\ owner' = caller
           /\ proposed_owner' = None
           /\ last' = [obs EXCEPT !.events = <<emit_ownership_transferred(owner, caller)>>]
           /\ UNCHANGED <<admins, is_paused, default_expiration_secs,
                          storage_cost_per_credential, verification_keys,
                          credentials, credentials_by_owner, total_verifications,
                          total_credentials, vk_count, credential_nonce,
                          revoked_credentials>>

AddAdmin(caller, account) ==
  LET obs == Observation("add_admin")
  IN  IF ~is_owner(caller) THEN Panic(obs, "Unauthorized")
      ELSE /\ admins' = admins \cup {account}
           /\ last' = [obs EXCEPT !.events = <<emit_admin_added(account)>>]
           /\ UNCHANGED <<owner, proposed_owner, is_paused, default_expiration_secs,
                          storage_cost_per_credential, verification_keys,
                          credentials, credentials_by_owner, total_verifications,
                          total_credentials, vk_count, credential_nonce,
                          revoked_credentials>>

RemoveAdmin(caller, account) ==
  LET obs == Observation("remove_admin")
  IN  IF ~is_owner(caller) THEN Panic(obs, "Unauthorized")
      ELSE /\ admins' = admins \ {account}
           /\ last' = [obs EXCEPT !.events = <<emit_admin_removed(account)>>]
           /\ UNCHANGED <<owner, proposed_owner, is_paused, default_expiration_secs,
                          storage_cost_per_credential, verification_keys,
                          credentials, credentials_by_owner, total_verifications,
                          total_credentials, vk_count, credential_nonce,
                          revoked_credentials>>

SetDefaultExpiration(caller, seconds) ==
  LET obs == Observation("set_default_expiration")
  IN  IF ~is_owner(caller) THEN Panic(obs, "Unauthorized")
      ELSE /\ default_expiration_secs' = seconds
           /\ last' = obs
           /\ UNCHANGED <<owner, proposed_owner, admins, is_paused,
                          storage_cost_per_credential, verification_keys,
                          credentials, credentials_by_owner, total_verifications,
                          total_credentials, vk_count, credential_nonce,
                          revoked_credentials>>

\* ------------------------------------------------------------------------
\* Credential store (storage.rs)
\* ------------------------------------------------------------------------
\* store_credential: writes the record and indexes it under its owner; the
\* result is the pair of collections after the call
store_credential(creds, by_owner, credential) ==
  LET id == credential.id
      cred_owner == credential.owner
      sets == IF cred_owner \notin DOMAIN by_owner
              THEN MapInsert(by_owner, cred_owner, <<>>)
              ELSE by_owner
  IN  [credentials |-> MapInsert(creds, id, credential),
       credentials_by_owner |->
         [sets EXCEPT ![cred_owner] = SetInsert(sets[cred_owner], id)]]

\* a variant that deletes the record and leaves the owner's index alone
remove_credential_keeping_index(creds, by_owner, credential_id, caller) ==
  IF credential_id \in DOMAIN creds /\ creds[credential_id].owner = caller
  THEN [removed |-> TRUE, credentials |-> MapRemove(creds, credential_id),
        credentials_by_owner |-> by_owner]
  ELSE [removed |-> FALSE, credentials |-> creds, credentials_by_owner |-> by_owner]

\* a variant without the ownership check
remove_credential_by_anyone(creds, by_owner, credential_id, caller) ==
  IF credential_id \notin DOMAIN creds
  THEN [removed |-> FALSE, credentials |-> creds, credentials_by_owner |-> by_owner]
  ELSE LET cred_owner == creds[credential_id].owner
       IN  [removed |-> TRUE,
            credentials |-> MapRemove(creds, credential_id),
            credentials_by_owner |->
              IF cred_owner \in DOMAIN by_owner
              THEN [by_owner EXCEPT ![cred_owner] = SetRemove(by_owner[cred_owner], credential_id)]
              ELSE by_owner]

\* a variant that reports the removal and keeps the record
remove_credential_keeping_record(creds, by_owner, credential_id, caller) ==
  [removed |-> credential_id \in DOMAIN creds /\ creds[credential_id].owner = caller,
   credentials |-> creds, credentials_by_owner |-> by_owner]

\* remove_credential: only the record's owner removes it
remove_credential(creds, by_owner, credential_id, caller) ==
  IF credential_id \notin DOMAIN creds
  THEN [removed |-> FALSE, credentials |-> creds, credentials_by_owner |-> by_owner]
  ELSE IF creds[credential_id].owner # caller
  THEN [removed |-> FALSE, credentials |-> creds, credentials_by_owner |-> by_owner]
  ELSE LET cred_owner == creds[credential_id].owner
       IN  [removed |-> TRUE,
            credentials |-> MapRemove(creds, credential_id),
            credentials_by_owner |->
              IF cred_owner \in DOMAIN by_owner
              THEN [by_owner EXCEPT ![cred_owner] = SetRemove(by_owner[cred_owner], credential_id)]
              ELSE by_owner]

\* a variant that still counts a record valid in its last second
stored_credential_valid_inclusive(creds, credential_id, now) ==
  IF credential_id \in DOMAIN creds
  THEN Some(creds[credential_id].expires_at >= now)
  ELSE None

\* storage::is_credential_valid at block time `now`
stored_credential_valid(creds, credential_id, now) ==
  IF credential_id \in DOMAIN creds
  THEN Some(creds[credential_id].expires_at > now)
  ELSE None

\* the loop of storage::get_credentials_by_owner over the owner's ids from
\* position i on; acc is <<result, total>>
RECURSIVE walk_owner_set(_, _, _, _, _, _, _, _)
walk_owner_set(creds, ids, i, include_expired, offset, limit, now, acc) ==
  IF i > Len(ids) THEN acc
  ELSE LET id == ids[i]
           matches == id \in DOMAIN creds
                        /\ (include_expired \/ creds[id].expires_at > now)
           take == matches /\ acc[2] >= offset /\ Len(acc[1]) < limit
       IN  walk_owner_set(creds, ids, i + 1, include_expired, offset, limit, now,
             << IF take THEN Append(acc[1], creds[id]) ELSE acc[1],
                IF matches THEN acc[2] + 1 ELSE acc[2] >>)

\* storage::get_credentials_by_owner: <<page, total_matching>>
stored_credentials_by_owner(creds, by_owner, cred_owner, include_expired, offset, limit, now) ==
  IF cred_owner \notin DOMAIN by_owner THEN << <<>>, 0 >>
  ELSE walk_owner_set(creds, by_owner[cred_owner], 1, include_expired, offset, limit,
                      now, << <<>>, 0 >>)

\* ------------------------------------------------------------------------
\* Verification methods (lib.rs:178-301)
\* ------------------------------------------------------------------------
\* a variant that takes every Ok(_) of the verifier for a valid proof
is_valid_of_any_ok(result) == result \in {"true", "false"}

\* match verify_groth16_proof(..) { Ok(valid) => valid, Err(_) => false }
is_valid_of(result) == result = "true"

\* a variant that stores whatever the verdict
should_store_any_verdict(is_valid, input) == input.store_credential

\* a variant that stores every valid proof, requested or not
should_store_every_valid(is_valid, input) == is_valid

should_store(is_valid, input) == is_valid /\ input.store_credential

\* a variant that accepts every deposit
deposit_always_sufficient(deposit, cost) == TRUE

deposit_sufficient(deposit, cost) == ~(deposit < cost)

\* a + b on u64. When the sum leaves the range the outcome depends on the
\* build: with overflow checks the call panics (Overflowed), without them the
\* sum wraps
Overflowed == -1
u64_add_outcomes(a, b) ==
  IF a + b < U64_RANGE THEN {a + b} ELSE {(a + b) % U64_RANGE, Overflowed}

\* a variant that leaves the nonce where it is
next_nonce_stuck(n) == n

\* self.credential_nonce += 1
next_nonce(n) == n + 1

VerifyProof(caller, input, deposit) ==
  LET obs == Observation("verify_proof")
      key == as_key(input.circuit_type)
  IN  IF is_paused THEN Panic(obs, "ContractPaused")
      ELSE IF key \notin DOMAIN verification_keys
      THEN Panic(obs, "VerificationKeyNotFound")
      ELSE
        LET vk == verification_keys[key]
            result == verifier_result(vk, input.proof, input.public_signals)
            is_valid == is_valid_of(result)
            seen == [obs EXCEPT !.verdict = result, !.valid = is_valid]
        IN  IF should_store(is_valid, input)
            THEN IF ~deposit_sufficient(deposit, storage_cost_per_credential)
                 THEN Panic(seen, "InsufficientDeposit")
                 ELSE
                   LET expiry == IF IsSome(input.custom_expiration)
                                 THEN Unwrap(input.custom_expiration)
                                 ELSE default_expiration_secs
                       nonce == next_nonce(credential_nonce)
                       id == generate_credential_id(caller, input.circuit_type, nonce)
                   IN  \E expires_at \in u64_add_outcomes(now_secs, expiry) :
                       LET credential ==
                         [id |-> id, owner |-> caller,
                          circuit_type |-> input.circuit_type,
                          public_signals |-> input.public_signals,
                          verified_at |-> now_secs, expires_at |-> expires_at,
                          claim |-> input.claim]
                           stored == store_credential(credentials, credentials_by_owner, credential)
                       IN
                       IF expires_at = Overflowed THEN Panic(seen, "ArithmeticOverflow")
                       ELSE
                       /\ total_verifications' = total_verifications + 1
                       /\ credential_nonce' = nonce
                       /\ credentials' = stored.credentials
                       /\ credentials_by_owner' = stored.credentials_by_owner
                       /\ total_credentials' = total_credentials + 1
                       /\ last' = [seen EXCEPT
                                     !.credential_id = Some(id),
                                     !.events =
                                       <<emit_credential_stored(id, caller, key, expires_at),
                                         emit_proof_verified(key, is_valid, Some(id))>>]
                       /\ UNCHANGED <<owner, proposed_owner, admins, is_paused,
                                      default_expiration_secs,
                                      storage_cost_per_credential, verification_keys,
                                      vk_count, revoked_credentials>>
            ELSE /\ total_verifications' = total_verifications + 1
                 /\ last' = [seen EXCEPT
                               !.events = <<emit_proof_verified(key, is_valid, None)>>]
                 /\ UNCHANGED <<owner, proposed_owner, admins, is_paused,
                                default_expiration_secs, storage_cost_per_credential,
                                verification_keys, credentials, credentials_by_owner,
                                total_credentials, vk_count, credential_nonce,
                                revoked_credentials>>

\* the result of the read-only variant: the error it aborts with, or the
\* VerificationResult it returns
verify_proof_view(input) ==
  LET key == as_key(input.circuit_type)
  IN  IF is_paused THEN [err |-> "ContractPaused", valid |-> FALSE, credential_id |-> None]
      ELSE IF key \notin DOMAIN verification_keys
      THEN [err |-> "VerificationKeyNotFound", valid |-> FALSE, credential_id |-> None]
      ELSE [err |-> "none",
            valid |-> is_valid_of(verifier_result(verification_keys[key],
                                    input.proof, input.public_signals)),
            credential_id |-> None]

\* a variant that counts the verification as verify_proof does
VerifyProofViewCounting(input) ==
  LET obs == Observation("verify_proof_view")
      res == verify_proof_view(input)
  IN  /\ last' = [obs EXCEPT !.err = res.err, !.valid = res.valid,
                             !.credential_id = res.credential_id]
      /\ total_verifications' =
           IF res.err = "none" THEN total_verifications + 1 ELSE total_verifications
      /\ UNCHANGED <<owner, proposed_owner, admins, is_paused, default_expiration_secs,
                     storage_cost_per_credential, verification_keys, credentials,
                     credentials_by_owner, total_credentials, vk_count,
                     credential_nonce, revoked_credentials>>

VerifyProofView(input) ==
  LET obs == Observation("verify_proof_view")
      res == verify_proof_view(input)
  IN  /\ last' = [obs EXCEPT !.err = res.err, !.valid = res.valid,
                             !.credential_id = res.credential_id]
      /\ UNCHANGED state

\* ------------------------------------------------------------------------
\* Credential queries and lifecycle (lib.rs:303-387)
\* ------------------------------------------------------------------------
\* a variant that hides the records while the contract is paused
get_credential_unless_paused(credential_id) ==
  IF ~is_paused /\ credential_id \in DOMAIN credentials
  THEN Some(credentials[credential_id]) ELSE None

get_credential(credential_id) ==
  IF credential_id \in DOMAIN credentials THEN Some(credentials[credential_id]) ELSE None

\* a variant that never consults the tombstones
is_credential_valid_ignoring_revocation(credential_id) ==
  stored_credential_valid(credentials, credential_id, now_secs)

is_credential_valid(credential_id) ==
  IF credential_id \in revoked_credentials THEN Some(FALSE)
  ELSE stored_credential_valid(credentials, credential_id, now_secs)

is_credential_revoked(credential_id) == credential_id \in revoked_credentials

\* a variant whose has_more forgets the offset
get_credentials_by_owner_ignoring_offset(cred_owner, include_expired, offset, limit) ==
  LET off == IF IsSome(offset) THEN Unwrap(offset) ELSE 0
      res == stored_credentials_by_owner(credentials, credentials_by_owner, cred_owner,
               IF IsSome(include_expired) THEN Unwrap(include_expired) ELSE FALSE,
               off,
               IF IsSome(limit) THEN Unwrap(limit) ELSE DEFAULT_PAGE_LIMIT,
               now_secs)
  IN  [credentials |-> res[1], total |-> res[2],
       has_more |-> Len(res[1]) < res[2]]

\* the arguments are Options: None selects the default
get_credentials_by_owner(cred_owner, include_expired, offset, limit) ==
  LET off == IF IsSome(offset) THEN Unwrap(offset) ELSE 0
      res == stored_credentials_by_owner(credentials, credentials_by_owner, cred_owner,
               IF IsSome(include_expired) THEN Unwrap(include_expired) ELSE FALSE,
               off,
               IF IsSome(limit) THEN Unwrap(limit) ELSE DEFAULT_PAGE_LIMIT,
               now_secs)
  IN  [credentials |-> res[1], total |-> res[2],
       has_more |-> (off + Len(res[1])) < res[2]]

\* a variant that forgets the decrement
saturating_dec_skipped(n) == n

\* u64::saturating_sub(1)
saturating_dec(n) == IF n > 0 THEN n - 1 ELSE 0

RemoveCredential(caller, credential_id) ==
  LET obs == Observation("remove_credential")
      res == remove_credential(credentials, credentials_by_owner, credential_id, caller)
  IN  IF is_paused THEN Panic(obs, "ContractPaused")
      ELSE /\ credentials' = res.credentials
           /\ credentials_by_owner' = res.credentials_by_owner
           /\ total_credentials' =
                IF res.removed
                THEN saturating_dec(total_credentials)
                ELSE total_credentials
           /\ last' = [obs EXCEPT
                         !.removed = res.removed,
                         !.events = IF res.removed
                                    THEN <<emit_credential_removed(credential_id, caller)>>
                                    ELSE <<>>]
           /\ UNCHANGED <<owner, proposed_owner, admins, is_paused,
                          default_expiration_secs, storage_cost_per_credential,
                          verification_keys, total_verifications, vk_count,
                          credential_nonce, revoked_credentials>>

\* a variant that decrements total_credentials on every call
RevokeCredentialCounting(caller, credential_id, reason) ==
  LET obs == Observation("revoke_credential")
      exists == credential_id \in DOMAIN credentials
  IN  IF ~is_owner_or_admin(caller) THEN Panic(obs, "Unauthorized")
      ELSE IF is_paused THEN Panic(obs, "ContractPaused")
      ELSE /\ credentials' = IF exists THEN MapRemove(credentials, credential_id)
                             ELSE credentials
           /\ credentials_by_owner' =
                IF exists /\ credentials[credential_id].owner \in DOMAIN credentials_by_owner
                THEN [credentials_by_owner EXCEPT
                        ![credentials[credential_id].owner] =
                          SetRemove(credentials_by_owner[credentials[credential_id].owner],
                                    credential_id)]
                ELSE credentials_by_owner
           /\ total_credentials' = saturating_dec(total_credentials)
           /\ revoked_credentials' = revoked_credentials \cup {credential_id}
           /\ last' = [obs EXCEPT
                         !.events = <<emit_credential_revoked(credential_id, caller, reason)>>]
           /\ UNCHANGED <<owner, proposed_owner, admins, is_paused,
                          default_expiration_secs, storage_cost_per_credential,
                          verification_keys, total_verifications, vk_count,
                          credential_nonce>>

RevokeCredential(caller, credential_id, reason) ==
  LET obs == Observation("revoke_credential")
      exists == credential_id \in DOMAIN credentials
  IN  IF ~is_owner_or_admin(caller) THEN Panic(obs, "Unauthorized")
      ELSE IF is_paused THEN Panic(obs, "ContractPaused")
      ELSE /\ credentials' = IF exists THEN MapRemove(credentials, credential_id)
                             ELSE credentials
           /\ credentials_by_owner' =
                IF exists /\ credentials[credential_id].owner \in DOMAIN credentials_by_owner
                THEN [credentials_by_owner EXCEPT
                        ![credentials[credential_id].owner] =
                          SetRemove(credentials_by_owner[credentials[credential_id].owner],
                                    credential_id)]
                ELSE credentials_by_owner
           /\ total_credentials' =
                IF exists
                THEN saturating_dec(total_credentials)
                ELSE total_credentials
           /\ revoked_credentials' = revoked_credentials \cup {credential_id}
           /\ last' = [obs EXCEPT
                         !.events = <<emit_credential_revoked(credential_id, caller, reason)>>]
           /\ UNCHANGED <<owner, proposed_owner, admins, is_paused,
                          default_expiration_secs, storage_cost_per_credential,
                          verification_keys, total_verifications, vk_count,
                          credential_nonce>>

\* ------------------------------------------------------------------------
\* View methods (lib.rs:393-422)
\* ------------------------------------------------------------------------
get_config ==
  [owner |-> owner, proposed_owner |-> proposed_owner, is_paused |-> is_paused,
   default_expiration_secs |-> default_expiration_secs,
   storage_cost_per_credential |-> storage_cost_per_credential]

get_stats ==
  [total_verifications |-> total_verifications,
   total_credentials |-> total_credentials, is_paused |-> is_paused,
   verification_keys_registered |-> vk_count]

has_verification_key(circuit_type) == as_key(circuit_type) \in DOMAIN verification_keys

get_storage_cost == storage_cost_per_credential

\* ------------------------------------------------------------------------
\* Environments: the inputs a specification draws the calls from
\* ------------------------------------------------------------------------
VerifyProofInputsOf(cases, circuits, customs) ==
  {[circuit_type |-> ct, proof |-> pc.proof, public_signals |-> pc.public_signals,
    store_credential |-> st, custom_expiration |-> cx, claim |-> None] :
     ct \in circuits, pc \in cases, st \in BOOLEAN, cx \in customs}

VerifyProofInputs(circuits, customs) == VerifyProofInputsOf(ProofCases, circuits, customs)

\* ids passed to remove_credential and revoke_credential: the live ones, the
\* revoked ones, one that never exists, and the ids the next store can derive
CredentialIdInputs(E) ==
  DOMAIN credentials \cup revoked_credentials \cup {FakeId}
    \cup {generate_credential_id(a, ct, credential_nonce + 1) :
            a \in E.targets, ct \in E.circuits}

\* The entry points, called by the accounts and with the arguments of E.
\* A call runs within one block: the block time does not change during it.
Calls(E) ==
  \/ \E caller \in E.key_callers, ct \in E.circuits, vk \in E.keys :
       SetVerificationKey(caller, ct, vk) /\ UNCHANGED <<block_timestamp, other_contracts>>
  \/ \E caller \in E.config_callers, paused \in E.pause_flags :
       SetPaused(caller, paused) /\ UNCHANGED <<block_timestamp, other_contracts>>
  \/ \E caller \in E.config_callers, new_owner \in E.owner_candidates :
       ProposeOwner(caller, new_owner) /\ UNCHANGED <<block_timestamp, other_contracts>>
  \/ \E caller \in E.config_callers : AcceptOwnership(caller) /\ UNCHANGED <<block_timestamp, other_contracts>>
  \/ \E caller \in E.config_callers, account \in E.admin_candidates :
       AddAdmin(caller, account) /\ UNCHANGED <<block_timestamp, other_contracts>>
  \/ \E caller \in E.config_callers, account \in E.admin_candidates :
       RemoveAdmin(caller, account) /\ UNCHANGED <<block_timestamp, other_contracts>>
  \/ \E caller \in E.expiry_callers, seconds \in E.seconds :
       SetDefaultExpiration(caller, seconds) /\ UNCHANGED <<block_timestamp, other_contracts>>
  \/ \E caller \in E.provers, input \in VerifyProofInputsOf(E.proofs, E.circuits, E.customs),
        deposit \in E.deposits :
       /\ total_verifications < E.max_verifications
       /\ credential_nonce < E.max_nonce
       /\ VerifyProof(caller, input, deposit)
       /\ UNCHANGED <<block_timestamp, other_contracts>>
  \/ \E input \in VerifyProofInputsOf(E.view_proofs, E.circuits, {None}) :
       VerifyProofView(input) /\ UNCHANGED <<block_timestamp, other_contracts>>
  \/ \E caller \in E.callers, id \in CredentialIdInputs(E) :
       RemoveCredential(caller, id) /\ UNCHANGED <<block_timestamp, other_contracts>>
  \/ \E caller \in E.callers, id \in CredentialIdInputs(E), reason \in E.reasons :
       /\ id \in revoked_credentials \/ Cardinality(revoked_credentials) < E.max_revoked
       /\ RevokeCredential(caller, id, reason)
       /\ UNCHANGED <<block_timestamp, other_contracts>>

\* Every entry point under access control and pause, with one credential
LifecycleEnv ==
  [callers |-> Accounts,
   key_callers |-> Accounts,
   keys |-> VerificationKeys,
   config_callers |-> Accounts,
   owner_candidates |-> {"alice.testnet"},
   admin_candidates |-> {"alice.testnet"},
   provers |-> {"alice.testnet", "bob.testnet"},
   targets |-> {"alice.testnet"},
   pause_flags |-> BOOLEAN,
   circuits |-> {"VerifiedBuilder"},
   customs |-> {None},
   seconds |-> {DEFAULT_EXPIRATION_SECS},
   expiry_callers |-> Accounts,
   proofs |-> ProofCases,
   view_proofs |-> ProofCases,
   deposits |-> Deposits,
   reasons |-> Reasons,
   max_verifications |-> MaxVerifications,
   max_nonce |-> MaxNonce,
   max_revoked |-> MaxRevoked]

Next == Calls(LifecycleEnv)

Spec == Init /\ [][Next]_vars

\* The credential store with several credentials: the configuration keeps its
\* initial values (only an account that is not the owner tries to change it)
StoreEnv ==
  [callers |-> Accounts,
   key_callers |-> {"owner.testnet"},
   keys |-> VerificationKeys,
   config_callers |-> {"bob.testnet"},
   owner_candidates |-> {"alice.testnet"},
   admin_candidates |-> {"alice.testnet"},
   provers |-> {"alice.testnet", "bob.testnet"},
   targets |-> {"alice.testnet"},
   pause_flags |-> BOOLEAN,
   circuits |-> {"VerifiedBuilder"},
   customs |-> {None},
   seconds |-> {DEFAULT_EXPIRATION_SECS},
   expiry_callers |-> {"bob.testnet"},
   proofs |-> ProofCases,
   view_proofs |-> ProofCases,
   deposits |-> Deposits,
   reasons |-> RevocationReasons,
   max_verifications |-> MaxStoreVerifications,
   max_nonce |-> MaxStored,
   max_revoked |-> MaxStoreRevoked]

NextStore == Calls(StoreEnv)

SpecStore == Init /\ [][NextStore]_vars

\* Ownership transfer between three accounts: two of them can be proposed, so
\* a pending proposal can be replaced; one valid proof, one reason
OwnershipEnv ==
  [callers |-> {"owner.testnet"},
   key_callers |-> {"owner.testnet"},
   keys |-> VerificationKeys,
   config_callers |-> Accounts,
   owner_candidates |-> {"alice.testnet", "bob.testnet"},
   admin_candidates |-> {"alice.testnet"},
   provers |-> {"alice.testnet"},
   targets |-> {"alice.testnet"},
   pause_flags |-> BOOLEAN,
   circuits |-> {"VerifiedBuilder"},
   customs |-> {None},
   seconds |-> {DEFAULT_EXPIRATION_SECS},
   expiry_callers |-> {"owner.testnet"},
   proofs |-> {[proof |-> ProofValid1, public_signals |-> <<9>>]},
   view_proofs |-> ProofCases,
   deposits |-> {DEFAULT_STORAGE_COST},
   reasons |-> Reasons,
   max_verifications |-> MaxOwnershipVerifications,
   max_nonce |-> MaxOwnershipStored,
   max_revoked |-> MaxOwnershipRevoked]

NextOwnership == Calls(OwnershipEnv)

SpecOwnership == Init /\ [][NextOwnership]_vars

\* Between two calls the block time advances
Tick ==
  /\ block_timestamp < MaxTicks * TickNanos
  /\ block_timestamp' = block_timestamp + TickNanos
  /\ UNCHANGED <<state, last, other_contracts>>

\* the expirations a caller supplies: none, zero, one second, and the largest
\* u64
CustomExpirations == {None, Some(0), Some(1), Some(U64_RANGE - 1)}

\* Credentials under a moving clock: custom and default expirations, the
\* owner changing the default; the other settings keep their initial values
ClockEnv ==
  [callers |-> {"owner.testnet", "alice.testnet"},
   key_callers |-> {"owner.testnet"},
   keys |-> VerificationKeys,
   config_callers |-> {"bob.testnet"},
   owner_candidates |-> {"alice.testnet"},
   admin_candidates |-> {"alice.testnet"},
   provers |-> {"alice.testnet"},
   targets |-> {"alice.testnet"},
   pause_flags |-> BOOLEAN,
   circuits |-> {"VerifiedBuilder"},
   customs |-> CustomExpirations,
   seconds |-> {0, 1, DEFAULT_EXPIRATION_SECS},
   expiry_callers |-> {"owner.testnet"},
   proofs |-> {[proof |-> ProofValid1, public_signals |-> <<9>>],
               [proof |-> ProofValid1, public_signals |-> <<10>>]},
   view_proofs |-> ProofCases,
   deposits |-> Deposits,
   reasons |-> Reasons,
   max_verifications |-> MaxClockVerifications,
   max_nonce |-> MaxClockStored,
   max_revoked |-> MaxClockRevoked]

NextClock == Calls(ClockEnv) \/ Tick

SpecClock == Init /\ [][NextClock]_vars

\* Pages of several credentials of two owners under a moving clock: one-second
\* and default expirations, removals by an owner of credentials
PageEnv ==
  [callers |-> {"alice.testnet"},
   key_callers |-> {"owner.testnet"},
   keys |-> VerificationKeys,
   config_callers |-> {"bob.testnet"},
   owner_candidates |-> {"alice.testnet"},
   admin_candidates |-> {"alice.testnet"},
   provers |-> {"alice.testnet", "bob.testnet"},
   targets |-> {"alice.testnet"},
   pause_flags |-> {TRUE},
   circuits |-> {"VerifiedBuilder"},
   customs |-> {None, Some(1)},
   seconds |-> {DEFAULT_EXPIRATION_SECS},
   expiry_callers |-> {"bob.testnet"},
   proofs |-> {[proof |-> ProofValid1, public_signals |-> <<9>>]},
   view_proofs |-> ProofCases,
   deposits |-> {DEFAULT_STORAGE_COST},
   reasons |-> Reasons,
   max_verifications |-> MaxPageVerifications,
   max_nonce |-> MaxPageStored,
   max_revoked |-> MaxPageRevoked]

NextPages == Calls(PageEnv) \/ Tick

SpecPages == Init /\ [][NextPages]_vars

\* Keys of two circuit types, installed and replaced by the owner and an
\* admin, with one credential
KeyEnv ==
  [callers |-> {"owner.testnet"},
   key_callers |-> {"owner.testnet", "alice.testnet"},
   keys |-> KeyCases,
   config_callers |-> {"owner.testnet"},
   owner_candidates |-> {"alice.testnet"},
   admin_candidates |-> {"alice.testnet"},
   provers |-> {"alice.testnet"},
   targets |-> {"alice.testnet"},
   pause_flags |-> BOOLEAN,
   circuits |-> {"VerifiedBuilder", "GrantTrackRecord"},
   customs |-> {None},
   seconds |-> {DEFAULT_EXPIRATION_SECS},
   expiry_callers |-> {"alice.testnet"},
   proofs |-> {[proof |-> ProofValid1, public_signals |-> <<9>>]},
   view_proofs |-> ProofCases,
   deposits |-> {DEFAULT_STORAGE_COST},
   reasons |-> Reasons,
   max_verifications |-> MaxKeyVerifications,
   max_nonce |-> MaxKeyStored,
   max_revoked |-> MaxKeyRevoked]

NextKeys == Calls(KeyEnv)

SpecKeys == Init /\ [][NextKeys]_vars

\* The verifier on tampered and malformed requests, under well-formed and
\* malformed keys; the configuration keeps its initial values
VerifierEnv ==
  [callers |-> {"owner.testnet"},
   key_callers |-> {"owner.testnet"},
   keys |-> VerifierKeys,
   config_callers |-> {"bob.testnet"},
   owner_candidates |-> {"alice.testnet"},
   admin_candidates |-> {"alice.testnet"},
   provers |-> {"alice.testnet"},
   targets |-> {"alice.testnet"},
   pause_flags |-> BOOLEAN,
   circuits |-> {"VerifiedBuilder"},
   customs |-> {None},
   seconds |-> {DEFAULT_EXPIRATION_SECS},
   expiry_callers |-> {"bob.testnet"},
   proofs |-> VerifierCases,
   view_proofs |-> VerifierCases,
   deposits |-> {DEFAULT_STORAGE_COST},
   reasons |-> Reasons,
   max_verifications |-> MaxVerifierVerifications,
   max_nonce |-> MaxVerifierStored,
   max_revoked |-> MaxVerifierRevoked]

NextVerifier == Calls(VerifierEnv)

SpecVerifier == Init /\ [][NextVerifier]_vars

\* Three credentials of one owner, removed by the owner or revoked by the
\* contract owner in between
OrderEnv ==
  [callers |-> {"owner.testnet", "alice.testnet"},
   key_callers |-> {"owner.testnet"},
   keys |-> {VK1},
   config_callers |-> {"bob.testnet"},
   owner_candidates |-> {"alice.testnet"},
   admin_candidates |-> {"alice.testnet"},
   provers |-> {"alice.testnet"},
   targets |-> {"alice.testnet"},
   pause_flags |-> {TRUE},
   circuits |-> {"VerifiedBuilder"},
   customs |-> {None},
   seconds |-> {DEFAULT_EXPIRATION_SECS},
   expiry_callers |-> {"bob.testnet"},
   proofs |-> {[proof |-> ProofValid1, public_signals |-> <<9>>]},
   view_proofs |-> {[proof |-> ProofValid1, public_signals |-> <<9>>]},
   deposits |-> {DEFAULT_STORAGE_COST},
   reasons |-> Reasons,
   max_verifications |-> MaxOrderVerifications,
   max_nonce |-> MaxOrderStored,
   max_revoked |-> MaxOrderRevoked]

NextOrder == Calls(OrderEnv)

SpecOrder == Init /\ [][NextOrder]_vars

\* ------------------------------------------------------------------------
\* Arguments the properties range over
\* ------------------------------------------------------------------------
\* ------------------------------------------------------------------------
\* async-ai-processor: the job queue
\* ------------------------------------------------------------------------
\* env::block_timestamp() in the processor's unit of time
processor_now == block_timestamp \div TickNanos

\* "job-" || hex(sha256("{owner}:job:{nonce}")[..16]), by its preimage
generate_job_id(job_owner, nonce) == <<job_owner, "job", nonce>>

is_terminal_never(status) == FALSE

is_terminal(status) == status \in {"Completed", "Failed", "Timeout"}

saturating_sub(a, b) == IF a > b THEN a - b ELSE 0

is_stale_never(now, created_at, timeout) == FALSE

\* the lazy timeout test of claim_job and timeout_stale_jobs
is_stale(now, created_at, timeout) == saturating_sub(now, created_at) > timeout

store_job(jobs, by_owner, job) ==
  [jobs |-> MapInsert(jobs, job.id, job),
   jobs_by_owner |->
     MapInsert(by_owner, job.owner,
               SetInsert(IF job.owner \in DOMAIN by_owner
                         THEN by_owner[job.owner] ELSE <<>>, job.id))]

count_active_jobs_pending_only(jobs, by_owner, job_owner) ==
  IF job_owner \notin DOMAIN by_owner THEN 0
  ELSE Cardinality({i \in 1..Len(by_owner[job_owner]) :
         /\ by_owner[job_owner][i] \in DOMAIN jobs
         /\ jobs[by_owner[job_owner][i]].status = "Pending"})

count_active_jobs(jobs, by_owner, job_owner) ==
  IF job_owner \notin DOMAIN by_owner THEN 0
  ELSE Cardinality({i \in 1..Len(by_owner[job_owner]) :
         /\ by_owner[job_owner][i] \in DOMAIN jobs
         /\ ~is_terminal(jobs[by_owner[job_owner][i]].status)})

remove_job(jobs, by_owner, pending, job_id, caller) ==
  IF job_id \notin DOMAIN jobs \/ jobs[job_id].owner # caller
  THEN [jobs |-> jobs, jobs_by_owner |-> by_owner, pending_jobs |-> pending,
        removed |-> FALSE]
  ELSE [jobs |-> MapRemove(jobs, job_id),
        jobs_by_owner |->
          IF caller \in DOMAIN by_owner
          THEN [by_owner EXCEPT ![caller] = SetRemove(@, job_id)]
          ELSE by_owner,
        pending_jobs |-> SetRemove(pending, job_id),
        removed |-> TRUE]

ProcessorObservation(op) ==
  [op |-> op, err |-> "none", job_id |-> None, job |-> None, count |-> 0,
   transfers |-> <<>>, events |-> <<>>]

ProcessorPanic(obs, err) ==
  /\ last' = [obs EXCEPT !.err = err]
  /\ UNCHANGED processor

timed_out(job, now) ==
  [job EXCEPT !.status = "Timeout", !.error = Some("Job timed out"),
              !.updated_at = now]

emit_job_submitted(job_id, job_owner, job_type) ==
  [event |-> "job_submitted", job_id |-> job_id, owner |-> job_owner,
   job_type |-> job_type]
emit_job_claimed(job_id, worker) ==
  [event |-> "job_claimed", job_id |-> job_id, worker |-> worker]
emit_job_checkpointed(job_id, progress, step) ==
  [event |-> "job_checkpointed", job_id |-> job_id, progress |-> progress,
   step |-> step]
emit_job_resumed(job_id, worker) ==
  [event |-> "job_resumed", job_id |-> job_id, worker |-> worker]
emit_job_completed(job_id, worker, has_attestation) ==
  [event |-> "job_completed", job_id |-> job_id, worker |-> worker,
   has_attestation |-> has_attestation]
emit_job_failed(job_id, error) ==
  [event |-> "job_failed", job_id |-> job_id, error |-> error]
emit_job_cancelled(job_id, job_owner) ==
  [event |-> "job_cancelled", job_id |-> job_id, owner |-> job_owner]
emit_worker_registered(worker) ==
  [event |-> "worker_registered", worker |-> worker]
emit_worker_removed(worker) ==
  [event |-> "worker_removed", worker |-> worker]

SubmitJob(caller, job_type, params, deposit) ==
  LET obs == ProcessorObservation("submit_job")
      nonce == processor.job_nonce + 1
      job_id == generate_job_id(caller, nonce)
      now == processor_now
      job == [id |-> job_id, job_type |-> job_type, owner |-> caller,
              deposit |-> deposit, params |-> params, status |-> "Pending",
              progress |-> 0, checkpoint |-> None, result |-> None,
              error |-> None, attestation |-> None, created_at |-> now,
              updated_at |-> now, completed_at |-> None, worker |-> None]
      stored == store_job(processor.jobs, processor.jobs_by_owner, job)
  IN  IF processor.is_paused THEN ProcessorPanic(obs, "ContractPaused")
      ELSE IF deposit < processor.config.min_deposit
      THEN ProcessorPanic(obs, "InsufficientDeposit")
      ELSE IF count_active_jobs(processor.jobs, processor.jobs_by_owner, caller)
                >= processor.config.max_active_jobs_per_user
      THEN ProcessorPanic(obs, "ActiveJobLimitExceeded")
      ELSE /\ processor' =
                [processor EXCEPT !.job_nonce = nonce,
                                  !.jobs = stored.jobs,
                                  !.jobs_by_owner = stored.jobs_by_owner,
                                  !.pending_jobs = SetInsert(@, job_id),
                                  !.total_jobs = @ + 1]
           /\ last' = [obs EXCEPT
                         !.job_id = Some(job_id),
                         !.events = <<emit_job_submitted(job_id, caller, job_type)>>]

refund_due_always(refund_amount) == TRUE

refund_due(refund_amount) == refund_amount > 0

CancelJob(caller, job_id) ==
  LET obs == ProcessorObservation("cancel_job")
  IN  IF processor.is_paused THEN ProcessorPanic(obs, "ContractPaused")
      ELSE IF job_id \notin DOMAIN processor.jobs
      THEN ProcessorPanic(obs, "JobNotFound")
      ELSE IF processor.jobs[job_id].owner # caller
      THEN ProcessorPanic(obs, "Unauthorized")
      ELSE IF processor.jobs[job_id].status # "Pending"
      THEN ProcessorPanic(obs, "InvalidStatusTransition")
      ELSE LET refund_amount == processor.jobs[job_id].deposit
               removed == remove_job(processor.jobs, processor.jobs_by_owner,
                                     processor.pending_jobs, job_id, caller)
           IN  /\ processor' =
                    [processor EXCEPT !.jobs = removed.jobs,
                                      !.jobs_by_owner = removed.jobs_by_owner,
                                      !.pending_jobs = removed.pending_jobs]
               /\ last' = [obs EXCEPT
                             !.transfers =
                               IF refund_due(refund_amount)
                               THEN <<[receiver |-> caller,
                                       amount |-> refund_amount]>>
                               ELSE <<>>,
                             !.events = <<emit_job_cancelled(job_id, caller)>>]

\* the loop of claim_job over the snapshot `ids` of the pending queue
RECURSIVE claim_scan(_, _, _, _, _, _, _)
claim_scan(jobs, pending, ids, i, now, timeout, worker) ==
  IF i > Len(ids)
  THEN [jobs |-> jobs, pending_jobs |-> pending, claimed |-> None]
  ELSE IF ids[i] \notin DOMAIN jobs
  THEN claim_scan(jobs, SetRemove(pending, ids[i]), ids, i + 1, now, timeout,
                  worker)
  ELSE IF is_stale(now, jobs[ids[i]].created_at, timeout)
  THEN claim_scan([jobs EXCEPT ![ids[i]] = timed_out(@, now)],
                  SetRemove(pending, ids[i]), ids, i + 1, now, timeout, worker)
  ELSE [jobs |-> [jobs EXCEPT ![ids[i]] =
                    [@ EXCEPT !.status = "Processing",
                              !.worker = Some(worker), !.updated_at = now]],
        pending_jobs |-> SetRemove(pending, ids[i]),
        claimed |-> Some(ids[i])]

ClaimJobCommitting(caller) ==
  LET obs == ProcessorObservation("claim_job")
      scan == claim_scan(processor.jobs, processor.pending_jobs,
                         processor.pending_jobs, 1, processor_now,
                         processor.config.job_timeout_ns, caller)
  IN  IF processor.is_paused THEN ProcessorPanic(obs, "ContractPaused")
      ELSE IF caller \notin processor.workers
      THEN ProcessorPanic(obs, "NotAWorker")
      ELSE /\ processor' = [processor EXCEPT !.jobs = scan.jobs,
                                             !.pending_jobs = scan.pending_jobs]
           /\ last' = IF scan.claimed = None
                      THEN [obs EXCEPT !.err = "NoPendingJobs"]
                      ELSE [obs EXCEPT
                              !.job_id = scan.claimed,
                              !.job = Some(scan.jobs[Unwrap(scan.claimed)]),
                              !.events = <<emit_job_claimed(Unwrap(scan.claimed),
                                                            caller)>>]

ClaimJob(caller) ==
  LET obs == ProcessorObservation("claim_job")
      scan == claim_scan(processor.jobs, processor.pending_jobs,
                         processor.pending_jobs, 1, processor_now,
                         processor.config.job_timeout_ns, caller)
  IN  IF processor.is_paused THEN ProcessorPanic(obs, "ContractPaused")
      ELSE IF caller \notin processor.workers
      THEN ProcessorPanic(obs, "NotAWorker")
      ELSE IF scan.claimed = None
      THEN ProcessorPanic(obs, "NoPendingJobs")
      ELSE /\ processor' = [processor EXCEPT !.jobs = scan.jobs,
                                             !.pending_jobs = scan.pending_jobs]
           /\ last' = [obs EXCEPT
                         !.job_id = scan.claimed,
                         !.job = Some(scan.jobs[Unwrap(scan.claimed)]),
                         !.events = <<emit_job_claimed(Unwrap(scan.claimed),
                                                       caller)>>]

clamp_progress(progress) == IF progress < 99 THEN progress ELSE 99

CheckpointProgress(caller, job_id, progress, step, checkpoint_state) ==
  LET obs == ProcessorObservation("checkpoint_progress")
      now == processor_now
      clamped_progress == clamp_progress(progress)
  IN  IF processor.is_paused THEN ProcessorPanic(obs, "ContractPaused")
      ELSE IF caller \notin processor.workers
      THEN ProcessorPanic(obs, "NotAWorker")
      ELSE IF job_id \notin DOMAIN processor.jobs
      THEN ProcessorPanic(obs, "JobNotFound")
      ELSE IF processor.jobs[job_id].status # "Processing"
      THEN ProcessorPanic(obs, "InvalidStatusTransition")
      ELSE /\ processor' =
                [processor EXCEPT !.jobs[job_id] =
                   [@ EXCEPT !.progress = clamped_progress,
                             !.status = "Paused",
                             !.checkpoint =
                               Some([progress |-> clamped_progress,
                                     step |-> step, state |-> checkpoint_state,
                                     timestamp |-> now]),
                             !.updated_at = now]]
           /\ last' = [obs EXCEPT !.events =
                         <<emit_job_checkpointed(job_id, clamped_progress, step)>>]

ResumeJob(caller, job_id) ==
  LET obs == ProcessorObservation("resume_job")
      resumed == [processor.jobs[job_id] EXCEPT
                    !.status = "Processing", !.worker = Some(caller),
                    !.updated_at = processor_now]
  IN  IF processor.is_paused THEN ProcessorPanic(obs, "ContractPaused")
      ELSE IF caller \notin processor.workers
      THEN ProcessorPanic(obs, "NotAWorker")
      ELSE IF job_id \notin DOMAIN processor.jobs
      THEN ProcessorPanic(obs, "JobNotFound")
      ELSE IF processor.jobs[job_id].status # "Paused"
      THEN ProcessorPanic(obs, "InvalidStatusTransition")
      ELSE /\ processor' = [processor EXCEPT !.jobs[job_id] = resumed]
           /\ last' = [obs EXCEPT !.job = Some(resumed),
                                  !.events = <<emit_job_resumed(job_id, caller)>>]

CompleteJob(caller, job_id, result, attestation) ==
  LET obs == ProcessorObservation("complete_job")
      now == processor_now
  IN  IF processor.is_paused THEN ProcessorPanic(obs, "ContractPaused")
      ELSE IF caller \notin processor.workers
      THEN ProcessorPanic(obs, "NotAWorker")
      ELSE IF job_id \notin DOMAIN processor.jobs
      THEN ProcessorPanic(obs, "JobNotFound")
      ELSE IF /\ processor.jobs[job_id].status # "Processing"
              /\ processor.jobs[job_id].status # "Paused"
      THEN ProcessorPanic(obs, "InvalidStatusTransition")
      ELSE /\ processor' =
                [processor EXCEPT
                   !.jobs[job_id] =
                     [@ EXCEPT !.status = "Completed", !.progress = 100,
                               !.result = Some(result),
                               !.attestation = attestation,
                               !.updated_at = now,
                               !.completed_at = Some(now)],
                   !.completed_jobs = @ + 1]
           /\ last' = [obs EXCEPT !.events =
                         <<emit_job_completed(job_id, caller,
                                              IsSome(attestation))>>]

unqueue_failed_skipped(pending, job_id) == pending

\* fail_job removes the job from the pending queue if it was there
unqueue_failed(pending, job_id) == SetRemove(pending, job_id)

FailJob(caller, job_id, error) ==
  LET obs == ProcessorObservation("fail_job")
  IN  IF processor.is_paused THEN ProcessorPanic(obs, "ContractPaused")
      ELSE IF caller \notin processor.workers
      THEN ProcessorPanic(obs, "NotAWorker")
      ELSE IF job_id \notin DOMAIN processor.jobs
      THEN ProcessorPanic(obs, "JobNotFound")
      ELSE IF is_terminal(processor.jobs[job_id].status)
      THEN ProcessorPanic(obs, "InvalidStatusTransition")
      ELSE /\ processor' =
                [processor EXCEPT
                   !.jobs[job_id] =
                     [@ EXCEPT !.status = "Failed", !.error = Some(error),
                               !.updated_at = processor_now],
                   !.pending_jobs = unqueue_failed(@, job_id),
                   !.failed_jobs = @ + 1]
           /\ last' = [obs EXCEPT !.events = <<emit_job_failed(job_id, error)>>]

\* the ids timeout_stale_jobs collects, in queue order
RECURSIVE stale_pending(_, _, _, _, _)
stale_pending(jobs, pending, i, now, timeout) ==
  IF i > Len(pending) THEN <<>>
  ELSE IF /\ pending[i] \in DOMAIN jobs
          /\ is_stale(now, jobs[pending[i]].created_at, timeout)
  THEN <<pending[i]>> \o stale_pending(jobs, pending, i + 1, now, timeout)
  ELSE stale_pending(jobs, pending, i + 1, now, timeout)

RECURSIVE apply_timeouts(_, _, _, _, _)
apply_timeouts(jobs, pending, ids, i, now) ==
  IF i > Len(ids) THEN [jobs |-> jobs, pending_jobs |-> pending]
  ELSE apply_timeouts(IF ids[i] \in DOMAIN jobs
                      THEN [jobs EXCEPT ![ids[i]] = timed_out(@, now)]
                      ELSE jobs,
                      SetRemove(pending, ids[i]), ids, i + 1, now)

TimeoutStaleJobs(caller) ==
  LET obs == ProcessorObservation("timeout_stale_jobs")
      now == processor_now
      stale == stale_pending(processor.jobs, processor.pending_jobs, 1, now,
                             processor.config.job_timeout_ns)
      applied == apply_timeouts(processor.jobs, processor.pending_jobs, stale,
                                1, now)
  IN  IF caller # processor.owner /\ caller \notin processor.workers
      THEN ProcessorPanic(obs, "Unauthorized")
      ELSE /\ processor' = [processor EXCEPT !.jobs = applied.jobs,
                                             !.pending_jobs = applied.pending_jobs]
           /\ last' = [obs EXCEPT !.count = Len(stale)]

RegisterWorker(caller, worker) ==
  LET obs == ProcessorObservation("register_worker")
  IN  IF caller # processor.owner THEN ProcessorPanic(obs, "Unauthorized")
      ELSE IF worker \notin processor.workers
      THEN /\ processor' = [processor EXCEPT !.workers = @ \cup {worker},
                                             !.worker_count = @ + 1]
           /\ last' = [obs EXCEPT !.events = <<emit_worker_registered(worker)>>]
      ELSE /\ last' = obs
           /\ UNCHANGED processor

RemoveWorker(caller, worker) ==
  LET obs == ProcessorObservation("remove_worker")
  IN  IF caller # processor.owner THEN ProcessorPanic(obs, "Unauthorized")
      ELSE IF worker \in processor.workers
      THEN /\ processor' = [processor EXCEPT !.workers = @ \ {worker},
                                             !.worker_count = saturating_dec(@)]
           /\ last' = [obs EXCEPT !.events = <<emit_worker_removed(worker)>>]
      ELSE /\ last' = obs
           /\ UNCHANGED processor

UpdateConfig(caller, config) ==
  LET obs == ProcessorObservation("update_config")
  IN  IF caller # processor.owner THEN ProcessorPanic(obs, "Unauthorized")
      ELSE /\ processor' = [processor EXCEPT !.config = config]
           /\ last' = obs

ProcessorSetPaused(caller, paused) ==
  LET obs == ProcessorObservation("set_paused")
  IN  IF caller # processor.owner THEN ProcessorPanic(obs, "Unauthorized")
      ELSE /\ processor' = [processor EXCEPT !.is_paused = paused]
           /\ last' = [obs EXCEPT !.events = <<emit_contract_paused(paused)>>]

\* ------------------------------------------------------------------------
\* async-ai-processor: environments
\* ------------------------------------------------------------------------
Worker1 == "worker1.testnet"

\* configurations an owner installs: no deposit, one active job per account
\* and a timeout shorter than one step of the clock; or only the short timeout
QuickConfig ==
  [min_deposit |-> 0, max_active_jobs_per_user |-> 1, job_timeout_ns |-> 0]

ShortTimeoutConfig == [DefaultConfig EXCEPT !.job_timeout_ns = 0]

FakeJobId == <<"nobody", "job", 0>>

\* the ids a caller may name: every id issued so far and one never issued
JobIdInputs(E) ==
  {generate_job_id(a, n) : a \in E.submitters, n \in 1..processor.job_nonce}
    \cup {FakeJobId}

ProcessorCalls(E) ==
  \/ \E caller \in E.submitters, job_type \in E.job_types,
        deposit \in E.deposits :
       /\ SubmitJob(caller, job_type, "{}", deposit)
       /\ processor'.job_nonce <= E.max_jobs
       /\ UNCHANGED <<state, block_timestamp, registry, agents>>
  \/ \E caller \in E.users, job_id \in JobIdInputs(E) :
       CancelJob(caller, job_id) /\ UNCHANGED <<state, block_timestamp, registry, agents>>
  \/ \E caller \in E.claimers :
       ClaimJob(caller) /\ UNCHANGED <<state, block_timestamp, registry, agents>>
  \/ \E caller \in E.worker_callers, job_id \in JobIdInputs(E),
        progress \in E.progress :
       /\ CheckpointProgress(caller, job_id, progress, "step", "{}")
       /\ UNCHANGED <<state, block_timestamp, registry, agents>>
  \/ \E caller \in E.worker_callers, job_id \in JobIdInputs(E) :
       ResumeJob(caller, job_id) /\ UNCHANGED <<state, block_timestamp, registry, agents>>
  \/ \E caller \in E.worker_callers, job_id \in JobIdInputs(E),
        attestation \in E.attestations :
       /\ CompleteJob(caller, job_id, "result", attestation)
       /\ UNCHANGED <<state, block_timestamp, registry, agents>>
  \/ \E caller \in E.worker_callers, job_id \in JobIdInputs(E) :
       FailJob(caller, job_id, "error") /\ UNCHANGED <<state, block_timestamp, registry, agents>>
  \/ \E caller \in E.maintainers :
       TimeoutStaleJobs(caller) /\ UNCHANGED <<state, block_timestamp, registry, agents>>
  \/ \E caller \in E.admin_callers, worker \in E.worker_candidates :
       RegisterWorker(caller, worker) /\ UNCHANGED <<state, block_timestamp, registry, agents>>
  \/ \E caller \in E.admin_callers, worker \in E.worker_candidates :
       RemoveWorker(caller, worker) /\ UNCHANGED <<state, block_timestamp, registry, agents>>
  \/ \E caller \in E.admin_callers, config \in E.configs :
       \* the configuration is settled before the first job is accepted
       /\ processor.total_jobs = 0
       /\ UpdateConfig(caller, config)
       /\ UNCHANGED <<state, block_timestamp, registry, agents>>
  \/ \E caller \in E.admin_callers, paused \in E.pause_flags :
       ProcessorSetPaused(caller, paused) /\ UNCHANGED <<state, block_timestamp, registry, agents>>

JobsEnv ==
  [submitters |-> {"alice.testnet"},
   users |-> {"alice.testnet", "bob.testnet"},
   claimers |-> {Worker1},
   worker_callers |-> {Worker1},
   maintainers |-> {InitialOwner, "alice.testnet"},
   admin_callers |-> {InitialOwner},
   worker_candidates |-> {Worker1},
   job_types |-> {"document-analysis"},
   deposits |-> {0, DEFAULT_MIN_DEPOSIT},
   progress |-> {100},
   attestations |-> {Some("tee")},
   configs |-> {DefaultConfig, QuickConfig},
   pause_flags |-> {FALSE},
   max_jobs |-> MaxJobs]

\* Between two calls to the processor the block time advances
JobTick ==
  /\ block_timestamp < MaxJobTicks * TickNanos
  /\ block_timestamp' = block_timestamp + TickNanos
  /\ UNCHANGED <<state, last, other_contracts>>

NextJobs == ProcessorCalls(JobsEnv) \/ JobTick

\* several jobs of one account, each with the minimum deposit, which the
\* worker claims or lets expire; the calls that report on a claimed job come
\* from an account that is no worker
QueueEnv ==
  [JobsEnv EXCEPT !.deposits = {DEFAULT_MIN_DEPOSIT},
                  !.worker_callers = {"alice.testnet"},
                  !.configs = {ShortTimeoutConfig},
                  !.max_jobs = MaxQueueJobs]

NextQueue == ProcessorCalls(QueueEnv) \/ JobTick

SpecQueue == Init /\ [][NextQueue]_vars

\* one active job per account, at a single block time
LimitEnv ==
  [JobsEnv EXCEPT !.configs = {QuickConfig}, !.max_jobs = MaxLimitJobs]

NextLimit == ProcessorCalls(LimitEnv)

SpecLimit == Init /\ [][NextLimit]_vars

SpecJobs == Init /\ [][NextJobs]_vars

AllVerifyProofInputs == VerifyProofInputs(CircuitType, {None})

\* the ids a property is stated for: those of CredentialIdInputs for every
\* account and circuit
IdUniverse ==
  DOMAIN credentials \cup revoked_credentials \cup {FakeId}
    \cup {generate_credential_id(a, ct, credential_nonce + 1) :
            a \in Accounts, ct \in CircuitType}

\* the verifier's verdict on a request, when the circuit has a key
verdict_of(input) ==
  verifier_result(verification_keys[as_key(input.circuit_type)],
                  input.proof, input.public_signals)

has_key(input) == as_key(input.circuit_type) \in DOMAIN verification_keys

\* the call aborted: the host rolled the state back
Aborted == last'.err # "none" /\ UNCHANGED state

\* ------------------------------------------------------------------------
\* C1: a record enters the credential map only in a verify_proof step whose
\* verifier returned valid = true, whose request set store_credential, whose
\* deposit covers the storage cost, and the record's owner is the caller; no
\* other operation adds or rewrites a record.
\* ------------------------------------------------------------------------
C1_RecordsOnlyFromVerifiedStore ==
  [][\A id \in DOMAIN credentials' :
       (id \notin DOMAIN credentials \/ credentials'[id] # credentials[id]) =>
         \E caller \in Accounts, input \in AllVerifyProofInputs, deposit \in Deposits :
           /\ VerifyProof(caller, input, deposit)
           /\ last'.err = "none"
           /\ verdict_of(input) = "true"
           /\ input.store_credential
           /\ deposit >= storage_cost_per_credential
           /\ credentials'[id].owner = caller
           /\ credentials'[id].id = id]_vars

\* a verify_proof call has just stored a record
C1_Witness ==
  /\ last.op = "verify_proof" /\ last.err = "none"
  /\ IsSome(last.credential_id)
  /\ Unwrap(last.credential_id) \in DOMAIN credentials

\* ------------------------------------------------------------------------
\* C2: tombstones are permanent. A successful revoke_credential(id) leaves
\* is_credential_revoked(id) true and is_credential_valid(id) = Some(false),
\* also for an id that never existed, and every later step keeps both.
\* ------------------------------------------------------------------------
C2_TombstonePermanent ==
  [][/\ (last'.op = "revoke_credential" /\ last'.err = "none") =>
          \A caller \in Accounts, id \in IdUniverse, reason \in Reasons :
            RevokeCredential(caller, id, reason) =>
              /\ is_credential_revoked(id)'
              /\ is_credential_valid(id)' = Some(FALSE)
     /\ \A id \in revoked_credentials :
          /\ is_credential_revoked(id)'
          /\ is_credential_valid(id)' = Some(FALSE)]_vars

\* an id that never had a record was revoked, and another call succeeded since
C2_Witness ==
  /\ FakeId \in revoked_credentials
  /\ last.op # "revoke_credential" /\ last.err = "none"
  /\ is_credential_valid(FakeId) = Some(FALSE)

\* ------------------------------------------------------------------------
\* C3: every revoked id is absent from the credential map and from every
\* owner-set, also when it was revoked before verify_proof derived it.
\* ------------------------------------------------------------------------
C3_RevokedAbsent ==
  \A id \in revoked_credentials :
    /\ id \notin DOMAIN credentials
    /\ \A a \in DOMAIN credentials_by_owner : ~SeqContains(credentials_by_owner[a], id)

\* ------------------------------------------------------------------------
\* C4: while is_paused, verify_proof, set_verification_key, remove_credential,
\* revoke_credential, propose_owner, add_admin, remove_admin and
\* set_default_expiration fail with the paused error and change nothing,
\* whoever calls them.
\* ------------------------------------------------------------------------
PausedRejection == last'.err = "ContractPaused" /\ UNCHANGED state

C4_PausedBlocksMutations ==
  [][is_paused =>
       \A caller \in Accounts :
         /\ \A input \in AllVerifyProofInputs, deposit \in Deposits :
              VerifyProof(caller, input, deposit) => PausedRejection
         /\ \A ct \in CircuitType, vk \in VerificationKeys :
              SetVerificationKey(caller, ct, vk) => PausedRejection
         /\ \A id \in IdUniverse :
              RemoveCredential(caller, id) => PausedRejection
         /\ \A id \in IdUniverse, reason \in Reasons :
              RevokeCredential(caller, id, reason) => PausedRejection
         /\ \A a \in Accounts :
              /\ ProposeOwner(caller, a) => PausedRejection
              /\ AddAdmin(caller, a) => PausedRejection
              /\ RemoveAdmin(caller, a) => PausedRejection
         /\ SetDefaultExpiration(caller, DEFAULT_EXPIRATION_SECS) => PausedRejection]_vars

\* ------------------------------------------------------------------------
\* C5: the read-only entry points and the pause flag. A step that flips
\* is_paused changes nothing else, so the results before and after it are the
\* results with the flag set and with the flag cleared.
\* ------------------------------------------------------------------------
OptionalFlags == {None, Some(TRUE), Some(FALSE)}
Offsets == {None, Some(0), Some(1)}
Limits == {None, Some(1)}

\* get_config and get_stats report the flag itself
config_apart_from_flag == [get_config EXCEPT !.is_paused = FALSE]
stats_apart_from_flag == [get_stats EXCEPT !.is_paused = FALSE]

\* the queries that do not verify give the same result on both sides of the step
QueriesKeepResult ==
  /\ \A id \in IdUniverse :
       /\ get_credential(id)' = get_credential(id)
       /\ is_credential_valid(id)' = is_credential_valid(id)
       /\ is_credential_revoked(id)' = is_credential_revoked(id)
  /\ \A a \in Accounts, ie \in OptionalFlags, off \in Offsets, lim \in Limits :
       get_credentials_by_owner(a, ie, off, lim)' = get_credentials_by_owner(a, ie, off, lim)
  /\ config_apart_from_flag' = config_apart_from_flag
  /\ stats_apart_from_flag' = stats_apart_from_flag
  /\ \A ct \in CircuitType : has_verification_key(ct)' = has_verification_key(ct)
  /\ get_storage_cost' = get_storage_cost

\* C5 as stated: every read-only entry point, verify_proof_view included,
\* returns while paused what it returns with the flag cleared.
C5_ViewsIgnorePause ==
  [][(is_paused' # is_paused) =>
       /\ QueriesKeepResult
       /\ \A input \in AllVerifyProofInputs :
            verify_proof_view(input)' = verify_proof_view(input)]_vars

\* C5, amended: get_credential, is_credential_valid, get_credentials_by_owner,
\* is_credential_revoked, has_verification_key and get_storage_cost return
\* while paused what they return with the flag cleared, get_config and
\* get_stats too apart from their is_paused field; verify_proof_view aborts
\* with the paused error while the flag is set.
C5_QueriesIgnorePause ==
  [][/\ (is_paused' # is_paused) => QueriesKeepResult
     /\ is_paused' =>
          \A input \in AllVerifyProofInputs :
            verify_proof_view(input)'.err = "ContractPaused"]_vars

\* verify_proof_view was called on a paused contract that holds a record and
\* a key
C5_Witness ==
  /\ is_paused
  /\ last.op = "verify_proof_view" /\ last.err = "ContractPaused"
  /\ DOMAIN credentials # {}
  /\ DOMAIN verification_keys # {}

\* ------------------------------------------------------------------------
\* C6: a verify_proof call whose public_signals length differs from
\* len(vk.ic) - 1 aborts: no state changes, total_verifications is not
\* incremented and no proof_verified event is emitted.
\* ------------------------------------------------------------------------
arity_mismatch(input) ==
  Len(input.public_signals) # Len(verification_keys[as_key(input.circuit_type)].ic) - 1

C6_ArityMismatchAborts ==
  [][last'.op = "verify_proof" =>
       \A input \in AllVerifyProofInputs :
         (has_key(input) /\ arity_mismatch(input)) =>
           \A caller \in Accounts, deposit \in Deposits :
             VerifyProof(caller, input, deposit) =>
               /\ Aborted
               /\ total_verifications' = total_verifications
               /\ last'.events = <<>>]_vars

\* ------------------------------------------------------------------------
\* C7: when the pairing equation is false or a proof point does not parse,
\* verify_proof does not abort: it returns valid = false and no credential id,
\* increments total_verifications, emits proof_verified with valid = false, and
\* leaves credentials, owner-sets, total_credentials and credential_nonce
\* unchanged, also when store_credential is set.
\* ------------------------------------------------------------------------
C7_CryptoFailureIsAResult ==
  [][(last'.op = "verify_proof" /\ ~is_paused) =>
       \A input \in AllVerifyProofInputs :
         (has_key(input) /\ verdict_of(input) \in {"false", "InvalidProofFormat"}) =>
           \A caller \in Accounts, deposit \in Deposits :
             VerifyProof(caller, input, deposit) =>
               /\ last'.err = "none"
               /\ last'.valid = FALSE
               /\ last'.credential_id = None
               /\ total_verifications' = total_verifications + 1
               /\ last'.events =
                    <<emit_proof_verified(as_key(input.circuit_type), FALSE, None)>>
               /\ UNCHANGED <<credentials, credentials_by_owner, total_credentials,
                              credential_nonce>>]_vars

\* a verify_proof call on a proof point off the curve returned valid = false
C7_Witness ==
  /\ last.op = "verify_proof" /\ last.err = "none"
  /\ last.verdict = "InvalidProofFormat"
  /\ ~last.valid /\ last.credential_id = None
  /\ total_verifications > 0

\* ------------------------------------------------------------------------
\* C8: verify_proof aborts with every state variable unchanged when the
\* circuit has no verification key, and when the proof is valid,
\* store_credential is set and the deposit is below the storage cost.
\* ------------------------------------------------------------------------
C8_MissingKeyOrDepositAborts ==
  [][last'.op = "verify_proof" =>
       \A input \in AllVerifyProofInputs :
         /\ ~has_key(input) =>
              \A caller \in Accounts, deposit \in Deposits :
                VerifyProof(caller, input, deposit) =>
                  /\ Aborted
                  /\ ~is_paused => last'.err = "VerificationKeyNotFound"
         /\ (has_key(input) /\ input.store_credential /\ verdict_of(input) = "true") =>
              \A caller \in Accounts, deposit \in Deposits :
                (deposit < storage_cost_per_credential
                   /\ VerifyProof(caller, input, deposit)) =>
                  /\ Aborted
                  /\ ~is_paused => last'.err = "InsufficientDeposit"]_vars

\* a valid proof with store_credential set was refused for its deposit
C8_Witness ==
  /\ last.op = "verify_proof" /\ last.err = "InsufficientDeposit"
  /\ last.verdict = "true"
  /\ total_verifications = 0 /\ credential_nonce = 0

\* ------------------------------------------------------------------------
\* C9: total_credentials is the number of records in the credential map.
\* ------------------------------------------------------------------------
C9_CounterMatchesMap == total_credentials = Cardinality(DOMAIN credentials)

\* two records were stored and one of them was removed or revoked
C9_Witness ==
  /\ credential_nonce = 2
  /\ total_credentials = 1
  /\ last.op \in {"remove_credential", "revoke_credential"} /\ last.err = "none"

\* ------------------------------------------------------------------------
\* C10: the owner-sets and the credential map agree. Every id in the set of
\* an account has a record owned by that account; every record's id is in
\* the set of its owner and in no other set.
\* ------------------------------------------------------------------------
C10_IndexConsistent ==
  /\ \A a \in DOMAIN credentials_by_owner :
       \A i \in 1..Len(credentials_by_owner[a]) :
         LET id == credentials_by_owner[a][i]
         IN  /\ id \in DOMAIN credentials
             /\ credentials[id].owner = a
             /\ \A j \in 1..Len(credentials_by_owner[a]) :
                  credentials_by_owner[a][j] = id => j = i
  /\ \A id \in DOMAIN credentials :
       /\ credentials[id].owner \in DOMAIN credentials_by_owner
       /\ \A a \in DOMAIN credentials_by_owner :
            SeqContains(credentials_by_owner[a], id) <=> a = credentials[id].owner

\* two accounts hold records, and one record has been removed by its owner
C10_Witness ==
  /\ credential_nonce = 2
  /\ last.op = "remove_credential" /\ last.removed
  /\ Cardinality(DOMAIN credentials) = 1
  /\ \E a \in DOMAIN credentials_by_owner : credentials_by_owner[a] = <<>>

\* ------------------------------------------------------------------------
\* C11: every stored credential has expires_at > verified_at, whatever
\* custom_expiration the caller supplies (0 and the largest u64 included) and
\* whatever default_expiration_secs the owner has set.
\* ------------------------------------------------------------------------
C11_ExpiresAfterVerified ==
  \A id \in DOMAIN credentials :
    credentials[id].expires_at > credentials[id].verified_at

\* ------------------------------------------------------------------------
\* C12: credential_nonce never decreases; it grows by exactly 1 in a step
\* that stores a credential and stays put in every other step. The stored id
\* is derived from the new nonce, so it differs from every id derived from an
\* earlier nonce, whether that credential is still live, removed or revoked,
\* and the live records carry pairwise distinct nonces.
\* ------------------------------------------------------------------------
\* the ids written by the step
StoredInStep ==
  {id \in DOMAIN credentials' :
     id \notin DOMAIN credentials \/ credentials'[id] # credentials[id]}

\* the ids verify_proof can have derived from the nonces 1 .. n
IdsDerivedUpTo(n) ==
  {generate_credential_id(a, ct, k) : a \in Accounts, ct \in CircuitType, k \in 1..n}

C12_NonceStrictlyMonotonic ==
  [][/\ credential_nonce' >= credential_nonce
     /\ StoredInStep = {} => credential_nonce' = credential_nonce
     /\ StoredInStep # {} =>
          /\ credential_nonce' = credential_nonce + 1
          /\ \A id \in StoredInStep :
               /\ id = generate_credential_id(credentials'[id].owner,
                                              credentials'[id].circuit_type,
                                              credential_nonce')
               /\ id \notin IdsDerivedUpTo(credential_nonce)
               /\ last'.credential_id = Some(id)
     /\ \A id1, id2 \in DOMAIN credentials' :
          id1 # id2 => id1[3] # id2[3]]_vars

\* a second credential was stored after the first one was removed or revoked
C12_Witness ==
  /\ credential_nonce = 2
  /\ last.op = "verify_proof" /\ IsSome(last.credential_id)
  /\ Cardinality(DOMAIN credentials) = 1
  /\ generate_credential_id("alice.testnet", "VerifiedBuilder", 1) \notin DOMAIN credentials

\* ------------------------------------------------------------------------
\* C13: accept_ownership succeeds exactly when a proposal is pending and the
\* caller is the proposed account, paused or not: then owner becomes the
\* caller and proposed_owner becomes None. In every other case it fails as
\* Unauthorized and changes nothing.
\* ------------------------------------------------------------------------
C13_AcceptOwnership ==
  [][last'.op = "accept_ownership" =>
       \A caller \in Accounts :
         AcceptOwnership(caller) =>
           IF IsSome(proposed_owner) /\ caller = Unwrap(proposed_owner)
           THEN /\ last'.err = "none"
                /\ owner' = caller
                /\ proposed_owner' = None
           ELSE /\ last'.err = "Unauthorized"
                /\ UNCHANGED state]_vars

\* the proposed account accepted while the contract was paused
C13_Witness ==
  /\ last.op = "accept_ownership" /\ last.err = "none"
  /\ is_paused
  /\ owner = "alice.testnet" /\ proposed_owner = None

\* ------------------------------------------------------------------------
\* C14: owner changes only in an accept_ownership step, and to the pending
\* proposal. The pending proposal is the argument of the latest propose_owner,
\* which only the owner of the moment can call: it changes only when the owner
\* proposes (to the account proposed) or when it is accepted (to None). An
\* account whose proposal was replaced cannot accept.
\* ------------------------------------------------------------------------
C14_OwnerFollowsLatestProposal ==
  [][/\ owner' # owner =>
          /\ IsSome(proposed_owner) /\ owner' = Unwrap(proposed_owner)
          /\ AcceptOwnership(owner')
     /\ proposed_owner' # proposed_owner =>
          \/ \E a \in Accounts : ProposeOwner(owner, a) /\ proposed_owner' = Some(a)
          \/ AcceptOwnership(Unwrap(proposed_owner)) /\ proposed_owner' = None
     /\ last'.op = "propose_owner" =>
          \A caller, a \in Accounts :
            (ProposeOwner(caller, a) /\ last'.err = "none") =>
              /\ caller = owner
              /\ proposed_owner' = Some(a)
     /\ last'.op = "accept_ownership" =>
          \A caller \in Accounts :
            (AcceptOwnership(caller) /\ proposed_owner # Some(caller)) =>
              /\ owner' = owner
              /\ last'.err = "Unauthorized"]_vars

\* an accept_ownership call was refused while the proposal of bob.testnet,
\* made by the second owner alice.testnet, was pending
C14_Witness ==
  /\ owner = "alice.testnet"
  /\ proposed_owner = Some("bob.testnet")
  /\ last.op = "accept_ownership" /\ last.err = "Unauthorized"

\* ------------------------------------------------------------------------
\* C15: set_paused, propose_owner, add_admin, remove_admin and
\* set_default_expiration fail as Unauthorized and change nothing for every
\* caller other than the current owner: admins and a former owner included.
\* ------------------------------------------------------------------------
UnauthorizedRejection == last'.err = "Unauthorized" /\ UNCHANGED state

C15_OwnerOnly ==
  [][last'.op \in {"set_paused", "propose_owner", "add_admin", "remove_admin",
                   "set_default_expiration"} =>
       \A caller \in Accounts \ {owner} :
         /\ \A paused \in BOOLEAN :
              SetPaused(caller, paused) => UnauthorizedRejection
         /\ \A a \in Accounts :
              /\ ProposeOwner(caller, a) => UnauthorizedRejection
              /\ AddAdmin(caller, a) => UnauthorizedRejection
              /\ RemoveAdmin(caller, a) => UnauthorizedRejection
         /\ \A seconds \in {0, DEFAULT_EXPIRATION_SECS} :
              SetDefaultExpiration(caller, seconds) => UnauthorizedRejection]_vars

\* after the transfer to alice.testnet, with an admin in place, a call of an
\* owner-only method was refused
C15_Witness ==
  /\ owner = "alice.testnet"
  /\ admins # {}
  /\ last.op \in {"set_paused", "propose_owner", "add_admin", "remove_admin",
                  "set_default_expiration"}
  /\ last.err = "Unauthorized"

\* ------------------------------------------------------------------------
\* C16: set_verification_key and revoke_credential succeed only for the
\* current owner and the current members of the admin set; every other caller,
\* a removed admin included, is rejected as Unauthorized. The admin set changes
\* only by add_admin and remove_admin called by the owner.
\* ------------------------------------------------------------------------
C16_OwnerOrAdmin ==
  [][/\ last'.op = "set_verification_key" =>
          \A caller \in Accounts, ct \in CircuitType, vk \in VerificationKeys :
            SetVerificationKey(caller, ct, vk) =>
              /\ last'.err = "none" => (caller = owner \/ caller \in admins)
              /\ (caller # owner /\ caller \notin admins) => UnauthorizedRejection
     /\ last'.op = "revoke_credential" =>
          \A caller \in Accounts, id \in IdUniverse, reason \in Reasons :
            RevokeCredential(caller, id, reason) =>
              /\ last'.err = "none" => (caller = owner \/ caller \in admins)
              /\ (caller # owner /\ caller \notin admins) => UnauthorizedRejection
     /\ admins' # admins =>
          \E a \in Accounts :
            \/ AddAdmin(owner, a) /\ admins' = admins \cup {a}
            \/ RemoveAdmin(owner, a) /\ admins' = admins \ {a}]_vars

\* with no admin left and the first owner in place, a set_verification_key
\* call was refused on a contract that is not paused
C16_Witness ==
  /\ last.op = "set_verification_key" /\ last.err = "Unauthorized"
  /\ admins = {} /\ owner = "owner.testnet"
  /\ vk_count = 1
  /\ ~is_paused

\* ------------------------------------------------------------------------
\* C17: on a contract that is not paused, remove_credential(id) by an account
\* that does not own the record (the contract owner and the admins included),
\* or for an id without a live record, returns false, emits no event and
\* changes no state.
\* ------------------------------------------------------------------------
C17_ForeignRemovalIsNoOp ==
  [][(last'.op = "remove_credential" /\ ~is_paused) =>
       \A caller \in Accounts, id \in IdUniverse :
         (/\ id \notin DOMAIN credentials \/ credentials[id].owner # caller
          /\ RemoveCredential(caller, id)) =>
           /\ last'.err = "none"
           /\ last'.removed = FALSE
           /\ last'.events = <<>>
           /\ UNCHANGED state]_vars

\* remove_credential returned false while a record was live and an admin was
\* in place
C17_Witness ==
  /\ last.op = "remove_credential" /\ last.err = "none" /\ ~last.removed
  /\ DOMAIN credentials # {}
  /\ admins # {}

\* ------------------------------------------------------------------------
\* C18: a successful remove_credential(id) is a call by the record's owner; it
\* deletes the record and the id from the owner's set and adds no tombstone:
\* get_credential(id) is None, is_credential_revoked(id) keeps its value, and
\* is_credential_valid(id) is None unless the id was revoked before.
\* ------------------------------------------------------------------------
C18_RemovalLeavesNoTombstone ==
  [][last'.op = "remove_credential" =>
       \A caller \in Accounts, id \in IdUniverse :
         (RemoveCredential(caller, id) /\ last'.removed) =>
           /\ id \in DOMAIN credentials /\ credentials[id].owner = caller
           /\ get_credential(id)' = None
           /\ \A a \in DOMAIN credentials_by_owner' :
                ~SeqContains(credentials_by_owner'[a], id)
           /\ revoked_credentials' = revoked_credentials
           /\ is_credential_revoked(id)' = is_credential_revoked(id)
           /\ is_credential_valid(id)' =
                IF is_credential_revoked(id) THEN Some(FALSE) ELSE None
           /\ last'.events = <<emit_credential_removed(id, caller)>>]_vars

\* the owner of a record that was never revoked has removed it
C18_Witness ==
  /\ last.op = "remove_credential" /\ last.removed
  /\ credential_nonce = 1 /\ DOMAIN credentials = {}
  /\ revoked_credentials = {}

\* ------------------------------------------------------------------------
\* C19: revoke_credential is idempotent. A successful call leaves the id
\* tombstoned and without a record or an owner-set entry; in such a state a
\* further revoke_credential(id, _), with any reason, leaves the credential
\* map, the owner-sets, the tombstones and every counter as they are.
\* ------------------------------------------------------------------------
C19_RevokeIdempotent ==
  [][last'.op = "revoke_credential" =>
       \A caller \in Accounts, id \in IdUniverse, reason \in RevocationReasons :
         RevokeCredential(caller, id, reason) =>
           /\ last'.err = "none" =>
                /\ id \in revoked_credentials'
                /\ id \notin DOMAIN credentials'
                /\ \A a \in DOMAIN credentials_by_owner' :
                     ~SeqContains(credentials_by_owner'[a], id)
           /\ (id \in revoked_credentials /\ id \notin DOMAIN credentials) =>
                UNCHANGED state]_vars

\* a revoke_credential call with the second reason succeeded on an id that is
\* tombstoned, while another credential is live
C19_Witness ==
  /\ last.op = "revoke_credential" /\ last.err = "none"
  /\ last.events[1].reason = "fraud"
  /\ revoked_credentials # {} /\ total_credentials = 1
  /\ credential_nonce = 2

\* ------------------------------------------------------------------------
\* C20: for every id and every block time, is_credential_valid(id) is
\* Some(false) if the id is tombstoned, otherwise Some(expires_at > now) if a
\* record exists, otherwise None. A record that is not revoked reports
\* Some(false) exactly when expires_at <= now.
\* ------------------------------------------------------------------------
C20_ValidityProbe ==
  \A id \in IdUniverse :
    /\ is_credential_valid(id) =
         IF id \in revoked_credentials THEN Some(FALSE)
         ELSE IF id \in DOMAIN credentials
              THEN Some(credentials[id].expires_at > now_secs)
              ELSE None
    /\ (id \in DOMAIN credentials /\ id \notin revoked_credentials) =>
         (is_credential_valid(id) = Some(FALSE) <=> credentials[id].expires_at <= now_secs)

\* a record that is not revoked has reached the second it expires in
C20_Witness ==
  \E id \in DOMAIN credentials :
    /\ id \notin revoked_credentials
    /\ credentials[id].verified_at < credentials[id].expires_at
    /\ credentials[id].expires_at = now_secs
    /\ is_credential_valid(id) = Some(FALSE)

\* ------------------------------------------------------------------------
\* C21: for every owner, include_expired, offset and limit,
\* get_credentials_by_owner returns total = the number of the owner's records
\* that pass the filter (include_expired or expires_at > now), page = the
\* matching records of rank offset .. offset + limit - 1 in the order of the
\* owner's set, and has_more = (offset + len(page) < total); an owner without
\* credentials gets an empty page, total 0 and has_more false.
\* ------------------------------------------------------------------------
PageOffsets == {None, Some(0), Some(1), Some(2), Some(3)}
PageLimits == {None, Some(0), Some(1), Some(2)}

\* the ids of the records of account a that pass the filter
MatchingIds(a, include_expired) ==
  {id \in DOMAIN credentials :
     /\ credentials[id].owner = a
     /\ include_expired \/ credentials[id].expires_at > now_secs}

Min(a, b) == IF a < b THEN a ELSE b

C21_Pagination ==
  \A a \in Accounts, ie \in OptionalFlags, offset \in PageOffsets, limit \in PageLimits :
    LET inc == IF IsSome(ie) THEN Unwrap(ie) ELSE FALSE
        off == IF IsSome(offset) THEN Unwrap(offset) ELSE 0
        lim == IF IsSome(limit) THEN Unwrap(limit) ELSE DEFAULT_PAGE_LIMIT
        matching == MatchingIds(a, inc)
        ids == IF a \in DOMAIN credentials_by_owner THEN credentials_by_owner[a] ELSE <<>>
        ranked == SelectSeq(ids, LAMBDA id : id \in matching)
        res == get_credentials_by_owner(a, ie, offset, limit)
    IN  /\ res.total = Cardinality(matching)
        /\ Len(ranked) = Cardinality(matching)
        /\ {ranked[i] : i \in 1..Len(ranked)} = matching
        /\ res.credentials =
             [i \in 1..(Min(off + lim, Len(ranked)) - Min(off, Len(ranked))) |->
                credentials[ranked[off + i]]]
        /\ res.has_more = (off + Len(res.credentials) < res.total)
        /\ matching = {} =>
             res = [credentials |-> <<>>, total |-> 0, has_more |-> FALSE]

\* alice holds two records of which one has expired: the first page of limit 1
\* is followed by more when the expired record is included, and is the last
\* one otherwise
C21_Witness ==
  /\ Cardinality(MatchingIds("alice.testnet", TRUE)) = 2
  /\ Cardinality(MatchingIds("alice.testnet", FALSE)) = 1
  /\ get_credentials_by_owner("alice.testnet", Some(TRUE), Some(0), Some(1)).has_more
  /\ ~get_credentials_by_owner("alice.testnet", None, Some(0), Some(1)).has_more
  /\ Len(get_credentials_by_owner("alice.testnet", None, Some(0), Some(1)).credentials) = 1

\* ------------------------------------------------------------------------
\* C22: verify_proof_view changes no state (total_verifications,
\* credential_nonce, the credential map, the owner-sets and the tombstones
\* among it) and returns credential_id = None for every input, a valid proof
\* with store_credential = true included.
\* ------------------------------------------------------------------------
C22_ViewHasNoEffect ==
  [][last'.op = "verify_proof_view" =>
       /\ UNCHANGED state
       /\ last'.credential_id = None
       /\ \A input \in AllVerifyProofInputs :
            /\ verify_proof_view(input).credential_id = None
            /\ VerifyProofView(input) =>
                 (last'.valid <=> ~is_paused /\ has_key(input) /\ verdict_of(input) = "true")]_vars

\* verify_proof_view has returned valid = true on a contract that has stored
\* nothing
C22_Witness ==
  /\ last.op = "verify_proof_view" /\ last.err = "none" /\ last.valid
  /\ last.credential_id = None
  /\ credential_nonce = 0 /\ total_verifications = 0 /\ credentials = <<>>

\* ------------------------------------------------------------------------
\* C23: verify_proof with a valid proof and store_credential = false returns
\* valid = true and credential_id = None, adds 1 to total_verifications and
\* leaves credential_nonce, total_credentials, the credential map and the
\* owner-sets unchanged, whatever deposit is attached.
\* ------------------------------------------------------------------------
AnyDeposit == Deposits \cup {0}

C23_VerifyWithoutStore ==
  [][last'.op = "verify_proof" =>
       \A input \in AllVerifyProofInputs :
         (/\ ~input.store_credential
          /\ ~is_paused /\ has_key(input)
          /\ verdict_of(input) = "true") =>
           \A caller \in Accounts, deposit \in AnyDeposit :
             VerifyProof(caller, input, deposit) =>
               /\ last'.err = "none"
               /\ last'.valid /\ last'.credential_id = None
               /\ total_verifications' = total_verifications + 1
               /\ UNCHANGED <<credential_nonce, total_credentials, credentials,
                              credentials_by_owner>>]_vars

\* one verification of a valid proof has been counted and nothing is stored
C23_Witness ==
  /\ last.op = "verify_proof" /\ last.err = "none"
  /\ last.valid /\ last.credential_id = None
  /\ total_verifications = 1
  /\ credential_nonce = 0 /\ total_credentials = 0 /\ credentials = <<>>

\* ------------------------------------------------------------------------
\* C24: verification keys are never deleted and never partially updated. Once
\* has_verification_key(ct) is true it stays true; the key map changes only in
\* a successful set_verification_key, which puts the whole submitted key under
\* the circuit type and leaves the other keys alone; vk_count is the number of
\* circuit types with a stored key, so replacing a key does not change it.
\* ------------------------------------------------------------------------
KeyedCircuits == {ct \in CircuitType : has_verification_key(ct)}

C24_KeysNeverDeleted ==
  [][/\ vk_count = Cardinality(KeyedCircuits)
     /\ vk_count' = Cardinality(KeyedCircuits')
     /\ KeyedCircuits \subseteq KeyedCircuits'
     /\ verification_keys' # verification_keys =>
          last'.op = "set_verification_key" /\ last'.err = "none"
     /\ (last'.op = "set_verification_key" /\ last'.err = "none") =>
          \E ct \in CircuitType, vk \in KeyCases :
            /\ last'.events = <<emit_verification_key_set(as_key(ct), has_verification_key(ct))>>
            /\ verification_keys'[as_key(ct)] = vk
            /\ \A k \in DOMAIN verification_keys' \ {as_key(ct)} :
                 k \in DOMAIN verification_keys /\ verification_keys'[k] = verification_keys[k]
            /\ has_verification_key(ct) => vk_count' = vk_count]_vars

\* the key of one circuit type has been replaced by another key while a
\* second circuit type has a key
C24_Witness ==
  /\ last.op = "set_verification_key" /\ last.err = "none"
  /\ last.events[1].updated /\ last.events[1].circuit_type = "verified-builder"
  /\ verification_keys["verified-builder"] = VK2
  /\ vk_count = 2

\* ------------------------------------------------------------------------
\* C25: every stored verification key has at least one IC point.
\* set_verification_key with an empty ic aborts, with InvalidVerificationKey
\* once the caller and the pause flag have passed, and leaves the key map and
\* vk_count unchanged; the verifier, which is given stored keys only, never
\* meets an empty ic.
\* ------------------------------------------------------------------------
C25_StoredKeysHaveIC ==
  [][/\ \A k \in DOMAIN verification_keys' : Len(verification_keys'[k].ic) >= 1
     /\ last'.op = "set_verification_key" =>
          \A caller \in Accounts, ct \in CircuitType :
            SetVerificationKey(caller, ct, VKEmptyIC) =>
              /\ Aborted
              /\ UNCHANGED <<verification_keys, vk_count>>
              /\ (is_owner_or_admin(caller) /\ ~is_paused) =>
                   last'.err = "InvalidVerificationKey"
     /\ last'.op \in {"verify_proof", "verify_proof_view"} =>
          \A input \in AllVerifyProofInputs :
            has_key(input) => Len(verification_keys[as_key(input.circuit_type)].ic) >= 1]_vars

\* a key with an empty ic was refused as the replacement of a stored key
C25_Witness ==
  /\ last.op = "set_verification_key" /\ last.err = "InvalidVerificationKey"
  /\ has_verification_key("VerifiedBuilder") /\ vk_count = 1
  /\ ~is_paused

\* ------------------------------------------------------------------------
\* C26: every successful call of a mutating entry point (set_verification_key,
\* verify_proof, remove_credential that removed, revoke_credential,
\* set_paused, propose_owner, accept_ownership, add_admin, remove_admin,
\* set_default_expiration) emits at least one EVENT_JSON log line.
\* ------------------------------------------------------------------------
MutatingEntryPoints ==
  {"set_verification_key", "verify_proof", "remove_credential", "revoke_credential",
   "set_paused", "propose_owner", "accept_ownership", "add_admin", "remove_admin",
   "set_default_expiration"}

C26_MutationsEmitEvents ==
  [][(/\ last'.op \in MutatingEntryPoints
      /\ last'.err = "none"
      /\ last'.op = "remove_credential" => last'.removed) =>
       Len(last'.events) >= 1]_vars

\* ------------------------------------------------------------------------
\* C27: parse_field_element rejects every string that is not a decimal
\* numeral and every decimal value greater than or equal to the field
\* modulus: a request of the right arity with such a public signal is a format
\* error, and two requests that differ in the public signal only are never
\* both verified.
\* ------------------------------------------------------------------------
VerifierInputs == VerifyProofInputsOf(VerifierCases, {"VerifiedBuilder"}, {None})

OutOfRange(s, modulus) == s < 0 \/ s >= modulus

C27_OutOfRangeRejected ==
  \A input \in VerifierInputs :
    has_key(input) =>
      /\ (/\ ~arity_mismatch(input)
          /\ \E i \in DOMAIN input.public_signals :
               OutOfRange(input.public_signals[i], R)) =>
           /\ \E i \in DOMAIN input.public_signals :
                parse_field_element(input.public_signals[i], R) = None
           /\ verdict_of(input) = "InvalidProofFormat"
      /\ \A other \in VerifierInputs :
           (/\ other.proof = input.proof
            /\ other.public_signals # input.public_signals
            /\ verdict_of(input) = "true") => verdict_of(other) # "true"

\* ------------------------------------------------------------------------
\* C28: for the valid triple (VK1, ProofValid1, <<9>>), replacing one
\* coordinate of one proof point, or replacing the public signal by another
\* value, makes verify_proof_view return valid = false, and never valid = true.
\* ------------------------------------------------------------------------
Tampered(input) ==
  \/ input.proof \in TamperedProofs /\ input.public_signals = <<9>>
  \/ /\ input.proof = ProofValid1
     /\ Len(input.public_signals) = 1 /\ input.public_signals # <<9>>

C28_TamperingNeverVerifies ==
  \A input \in VerifierInputs :
    (/\ ~is_paused
     /\ has_key(input) /\ verification_keys[as_key(input.circuit_type)] = VK1
     /\ Tampered(input)) =>
      /\ verify_proof_view(input).err = "none"
      /\ ~verify_proof_view(input).valid

\* ------------------------------------------------------------------------
\* C29: parse_g2_point reads each wire pair as [c1, c0] and builds the Fq2
\* element (c0, c1): a point of the subgroup written by g2_to_strings parses
\* back to itself. It rejects fewer than two pairs, a pair of fewer than two
\* strings, a point off the curve and a point of the curve outside the
\* prime-order subgroup, and a request with such a pi_b is a format error.
\* ------------------------------------------------------------------------
\* the points of the prime-order subgroup: the multiples of the generator
G2Subgroup ==
  {<< <<GeneratorMultiples[k][1], 0>>, <<GeneratorMultiples[k][2], 0>> >> : k \in 1..(R - 1)}

\* the G2 points on the wire: pi_b of the requests and the points of the
\* stored keys
G2Wires ==
  {pc.proof.pi_b : pc \in VerifierCases}
    \cup UNION {{verification_keys[k].beta, verification_keys[k].gamma,
                 verification_keys[k].delta} : k \in DOMAIN verification_keys}

\* the Fq2 point a well-shaped wire value denotes
WirePoint(w) ==
  << <<w[1][2] % Q, w[1][1] % Q>>, <<w[2][2] % Q, w[2][1] % Q>> >>

WellShaped(w) ==
  /\ Len(w) >= 2 /\ Len(w[1]) >= 2 /\ Len(w[2]) >= 2
  /\ \A i \in 1..2, j \in 1..2 : w[i][j] >= 0

C29_G2WireConvention ==
  /\ \A point \in G2Subgroup : parse_g2_point(g2_to_strings(point)) = Some(point)
  /\ \A w \in G2Wires :
       parse_g2_point(w) =
         IF WellShaped(w) /\ WirePoint(w) \in G2Subgroup THEN Some(WirePoint(w)) ELSE None
  /\ \A input \in VerifierInputs :
       (/\ has_key(input) /\ ~arity_mismatch(input)
        /\ ~(WellShaped(input.proof.pi_b) /\ WirePoint(input.proof.pi_b) \in G2Subgroup)) =>
         verdict_of(input) = "InvalidProofFormat"

\* the stored key has a beta that is on the curve and outside the subgroup,
\* and the valid proof was verified under it
C29_Witness ==
  /\ has_verification_key("VerifiedBuilder")
  /\ verification_keys["verified-builder"] = VKOffSubgroup
  /\ g2_is_on_curve(WirePoint(VKOffSubgroup.beta)[1], WirePoint(VKOffSubgroup.beta)[2])
  /\ WirePoint(VKOffSubgroup.beta) \notin G2Subgroup
  /\ last.op = "verify_proof" /\ last.verdict = "InvalidProofFormat"
  /\ verifier_result(VKOffSubgroup, ProofValid1, <<9>>) = "InvalidProofFormat"

\* ------------------------------------------------------------------------
\* C30: verify_groth16_proof compares the lengths first: a request with a
\* wrong number of signals is Err(InvalidPublicSignals) even when a point is
\* malformed; with the right number, a proof point, key point or signal that
\* does not parse makes it Err(InvalidProofFormat); Ok(false) is returned only
\* when everything parsed and the pairing product is not the identity.
\* ------------------------------------------------------------------------
\* the affine points of the curve over Fq
G1Group == {GeneratorMultiples[k] : k \in 1..(R - 1)}

G1WellFormed(coords) ==
  /\ Len(coords) >= 2 /\ coords[1] >= 0 /\ coords[2] >= 0
  /\ <<coords[1] % Q, coords[2] % Q>> \in G1Group

G2WellFormed(w) == WellShaped(w) /\ WirePoint(w) \in G2Subgroup

EverythingParses(vk, proof, public_signals) ==
  /\ G1WellFormed(proof.pi_a) /\ G2WellFormed(proof.pi_b) /\ G1WellFormed(proof.pi_c)
  /\ G1WellFormed(vk.alpha) /\ G2WellFormed(vk.beta)
  /\ G2WellFormed(vk.gamma) /\ G2WellFormed(vk.delta)
  /\ \A i \in DOMAIN vk.ic : G1WellFormed(vk.ic[i])
  /\ \A i \in DOMAIN public_signals : public_signals[i] >= 0

C30_ErrorClassification ==
  \A input \in VerifierInputs :
    has_key(input) =>
      LET vk == verification_keys[as_key(input.circuit_type)]
          parses == EverythingParses(vk, input.proof, input.public_signals)
      IN  /\ arity_mismatch(input) <=> verdict_of(input) = "InvalidPublicSignals"
          /\ (~arity_mismatch(input) /\ ~parses) <=> verdict_of(input) = "InvalidProofFormat"
          /\ (~arity_mismatch(input) /\ parses) <=> verdict_of(input) \in {"true", "false"}
          /\ verdict_of(input) = "false" =>
               ~multi_pairing_is_zero(
                  Unwrap(parse_g1_point(input.proof.pi_a)),
                  Unwrap(parse_g2_point(input.proof.pi_b)),
                  Unwrap(parse_g1_point(vk.alpha)), Unwrap(parse_g2_point(vk.beta)),
                  vk_x(vk.ic, input.public_signals), Unwrap(parse_g2_point(vk.gamma)),
                  Unwrap(parse_g1_point(input.proof.pi_c)),
                  Unwrap(parse_g2_point(vk.delta)))

\* under a stored key whose alpha is off the curve, a request with a wrong
\* number of signals was classified by its length
C30_Witness ==
  /\ has_verification_key("VerifiedBuilder")
  /\ verification_keys["verified-builder"] = VKOffCurve
  /\ ~G1WellFormed(VKOffCurve.alpha)
  /\ last.op = "verify_proof" /\ last.err = "none"
  /\ last.verdict = "InvalidPublicSignals" /\ ~last.valid

\* ------------------------------------------------------------------------
\* C31: get_credentials_by_owner lists an owner's credentials in the order in
\* which they were stored, also after other credentials of the owner have been
\* removed or revoked; the pages at offsets 0, limit, 2 * limit, ... of one
\* state therefore make up the list of the matching credentials, each once.
\* ------------------------------------------------------------------------
\* the nonce a credential was stored under, read off its id
StoredAs(credential) == credential.id[3]

RECURSIVE PagesFrom(_, _, _)
PagesFrom(a, offset, limit) ==
  LET res == get_credentials_by_owner(a, Some(TRUE), Some(offset), Some(limit))
  IN  IF res.has_more THEN res.credentials \o PagesFrom(a, offset + limit, limit)
      ELSE res.credentials

C31_StoredOrder ==
  \A a \in Accounts :
    LET all == get_credentials_by_owner(a, Some(TRUE), None, None).credentials
    IN  /\ \A i, j \in 1..Len(all) : i < j => StoredAs(all[i]) < StoredAs(all[j])
        /\ \A limit \in 1..2 : PagesFrom(a, 0, limit) = all
        /\ {all[i].id : i \in 1..Len(all)} = MatchingIds(a, TRUE)

\* ------------------------------------------------------------------------
\* grant-registry (contracts/grant-registry/src/{lib,storage,types}.rs).
\* Programs, projects and applications keep the fields the calls read or
\* count; their descriptive strings are stored as given and are left out.
\* UnorderedSet indexes are sets.
\* ------------------------------------------------------------------------
ProgramStatus == {"Active", "Upcoming", "Closed", "Paused"}

ApplicationStatus ==
  {"Draft", "Submitted", "UnderReview", "Approved", "Rejected", "Funded",
   "Completed"}

GrantObservation(op) == [op |-> op, err |-> "none", events |-> <<>>]

GrantPanic(obs, err) ==
  /\ last' = [obs EXCEPT !.err = err]
  /\ UNCHANGED registry

\* the index entry of a key, created empty on first use
IndexInsert(index, k, x) ==
  MapInsert(index, k, (IF k \in DOMAIN index THEN index[k] ELSE {}) \cup {x})

store_program(programs, program) == MapInsert(programs, program.id, program)

store_project(projects, by_owner, project) ==
  [projects |-> MapInsert(projects, project.id, project),
   projects_by_owner |-> IndexInsert(by_owner, project.registered_by, project.id)]

store_application(applications, by_project, by_program, application) ==
  [applications |-> MapInsert(applications, application.id, application),
   applications_by_project |->
     IndexInsert(by_project, application.project_id, application.id),
   applications_by_program |->
     IndexInsert(by_program, application.program_id, application.id)]

\* str::parse::<u128>: a decimal numeral is a natural number, anything else
\* (written -1) is an error
parse_u128(amount) == IF amount >= 0 THEN Some(amount) ELSE None

RegisterProgram(caller, id, organization, status) ==
  LET obs == GrantObservation("register_program")
      program == [id |-> id, organization |-> organization, status |-> status,
                  registered_by |-> caller, registered_at |-> block_timestamp,
                  application_count |-> 0, funded_count |-> 0]
  IN  IF registry.is_paused THEN GrantPanic(obs, "ContractPaused")
      ELSE IF id \in DOMAIN registry.programs
      THEN GrantPanic(obs, "ProgramAlreadyExists")
      ELSE /\ registry' =
                [registry EXCEPT
                   !.programs = store_program(@, program),
                   !.total_programs = @ + 1,
                   !.active_programs = IF status = "Active" THEN @ + 1 ELSE @]
           /\ last' = [obs EXCEPT !.events =
                         <<[event |-> "program_registered", program_id |-> id,
                            organization |-> organization,
                            registered_by |-> caller]>>]

RegisterProject(caller, id) ==
  LET obs == GrantObservation("register_project")
      project == [id |-> id, registered_by |-> caller,
                  registered_at |-> block_timestamp, total_funded |-> 0,
                  application_count |-> 0, success_rate |-> 0]
      stored == store_project(registry.projects, registry.projects_by_owner,
                              project)
  IN  IF registry.is_paused THEN GrantPanic(obs, "ContractPaused")
      ELSE IF id \in DOMAIN registry.projects
      THEN GrantPanic(obs, "ProjectAlreadyExists")
      ELSE /\ registry' =
                [registry EXCEPT
                   !.projects = stored.projects,
                   !.projects_by_owner = stored.projects_by_owner,
                   !.total_projects = @ + 1]
           /\ last' = [obs EXCEPT !.events =
                         <<[event |-> "project_registered", project_id |-> id,
                            registered_by |-> caller]>>]

RecordApplication(caller, id, program_id, project_id) ==
  LET obs == GrantObservation("record_application")
      application ==
        [id |-> id, program_id |-> program_id, project_id |-> project_id,
         applicant_account_id |-> caller, status |-> "Submitted",
         submitted_at |-> Some(block_timestamp), funded_amount |-> None,
         completed_at |-> None]
      stored == store_application(registry.applications,
                                  registry.applications_by_project,
                                  registry.applications_by_program, application)
  IN  IF registry.is_paused THEN GrantPanic(obs, "ContractPaused")
      ELSE IF id \in DOMAIN registry.applications
      THEN GrantPanic(obs, "ApplicationAlreadyExists")
      ELSE IF program_id \notin DOMAIN registry.programs
      THEN GrantPanic(obs, "ProgramNotFound")
      ELSE IF project_id \notin DOMAIN registry.projects
      THEN GrantPanic(obs, "ProjectNotFound")
      ELSE /\ registry' =
                [registry EXCEPT
                   !.applications = stored.applications,
                   !.applications_by_project = stored.applications_by_project,
                   !.applications_by_program = stored.applications_by_program,
                   !.programs[program_id].application_count = @ + 1,
                   !.projects[project_id].application_count = @ + 1,
                   !.total_applications = @ + 1]
           /\ last' = [obs EXCEPT !.events =
                         <<[event |-> "application_recorded",
                            application_id |-> id, program_id |-> program_id,
                            project_id |-> project_id, applicant |-> caller]>>]

\* update_application counts a funding when the new status is Funded and the
\* old one was not
newly_funded(new_status, was_funded) == new_status = "Funded" /\ ~was_funded

UpdateApplication(caller, application_id, new_status, funded_amount) ==
  LET obs == GrantObservation("update_application")
  IN  IF registry.is_paused THEN GrantPanic(obs, "ContractPaused")
      ELSE IF application_id \notin DOMAIN registry.applications
      THEN GrantPanic(obs, "ApplicationNotFound")
      ELSE LET app == registry.applications[application_id]
               was_funded == app.status = "Funded"
               counted == newly_funded(new_status, was_funded)
               updated ==
                 [app EXCEPT
                    !.status = new_status,
                    !.funded_amount =
                      IF IsSome(funded_amount) THEN funded_amount ELSE @,
                    !.completed_at =
                      IF new_status = "Completed" THEN Some(block_timestamp)
                      ELSE @]
           IN  /\ registry' =
                    [registry EXCEPT
                       !.applications[application_id] = updated,
                       !.programs =
                         IF counted /\ app.program_id \in DOMAIN @
                         THEN [@ EXCEPT ![app.program_id].funded_count = @ + 1]
                         ELSE @,
                       !.total_funded =
                         IF /\ counted
                            /\ IsSome(funded_amount)
                            /\ IsSome(parse_u128(Unwrap(funded_amount)))
                         THEN @ + Unwrap(parse_u128(Unwrap(funded_amount)))
                         ELSE @]
               /\ last' = [obs EXCEPT !.events =
                             <<[event |-> "application_updated",
                                application_id |-> application_id,
                                new_status |-> new_status,
                                updated_by |-> caller]>>]

RegistrySetPaused(caller, paused) ==
  LET obs == GrantObservation("set_paused")
  IN  IF caller # registry.owner THEN GrantPanic(obs, "Unauthorized")
      ELSE /\ registry' = [registry EXCEPT !.is_paused = paused]
           /\ last' = [obs EXCEPT !.events = <<emit_contract_paused(paused)>>]

GrantCalls(E) ==
  \/ \E caller \in E.callers, id \in E.program_ids, status \in E.program_statuses :
       /\ RegisterProgram(caller, id, "near-foundation", status)
       /\ UNCHANGED <<state, block_timestamp, processor, agents>>
  \/ \E caller \in E.callers, id \in E.project_ids :
       /\ RegisterProject(caller, id)
       /\ UNCHANGED <<state, block_timestamp, processor, agents>>
  \/ \E caller \in E.callers, id \in E.application_ids,
        program_id \in E.program_ids, project_id \in E.project_ids :
       /\ RecordApplication(caller, id, program_id, project_id)
       /\ UNCHANGED <<state, block_timestamp, processor, agents>>
  \/ \E caller \in E.callers, id \in E.application_ids,
        new_status \in E.application_statuses, funded_amount \in E.amounts :
       /\ UpdateApplication(caller, id, new_status, funded_amount)
       /\ \A p \in DOMAIN registry'.programs :
            registry'.programs[p].funded_count <= E.max_funded_count
       /\ UNCHANGED <<state, block_timestamp, processor, agents>>
  \/ \E caller \in E.admin_callers, paused \in E.pause_flags :
       /\ RegistrySetPaused(caller, paused)
       /\ UNCHANGED <<state, block_timestamp, processor, agents>>

GrantEnv ==
  [callers |-> {"alice.testnet"},
   admin_callers |-> {InitialOwner, "alice.testnet"},
   program_ids |-> {"prog-1"},
   program_statuses |-> {"Active"},
   project_ids |-> {"proj-1"},
   application_ids |-> {"app-1", "app-2"},
   application_statuses |-> {"UnderReview", "Rejected", "Funded", "Completed"},
   amounts |-> {None, Some(100), Some(-1)},
   pause_flags |-> {TRUE, FALSE},
   max_funded_count |-> MaxFundedCount]

NextGrants == GrantCalls(GrantEnv)

SpecGrants == Init /\ [][NextGrants]_vars

\* ------------------------------------------------------------------------
\* shade-agent-registry
\* (contracts/shade-agent-registry/src/{lib,storage,types}.rs).
\* Templates and instances keep the fields the calls read or count; names,
\* capabilities and urls are stored as given and are left out.
\* ------------------------------------------------------------------------
AgentObservation(op) ==
  [op |-> op, err |-> "none", result |-> None, count |-> 0, events |-> <<>>]

AgentPanic(obs, err) ==
  /\ last' = [obs EXCEPT !.err = err]
  /\ UNCHANGED agents

store_template(templates, template) ==
  MapInsert(templates, template.id, template)

store_instance(instances, by_owner, instance) ==
  [instances |-> MapInsert(instances, instance.account_id, instance),
   instances_by_owner |->
     IndexInsert(by_owner, instance.owner_account_id, instance.account_id)]

RegisterTemplateOverwriting(caller, id, codehash) ==
  LET obs == AgentObservation("register_template")
      template == [id |-> id, codehash |-> codehash, creator |-> caller,
                   created_at |-> block_timestamp, deployments |-> 0,
                   is_audited |-> FALSE]
  IN  IF agents.is_paused THEN AgentPanic(obs, "ContractPaused")
      ELSE /\ agents' = [agents EXCEPT
                           !.templates = store_template(@, template),
                           !.total_templates = @ + 1]
           /\ last' = [obs EXCEPT !.events =
                         <<[event |-> "template_registered", template_id |-> id,
                            creator |-> caller, codehash |-> codehash]>>]

RegisterTemplate(caller, id, codehash) ==
  LET obs == AgentObservation("register_template")
      template == [id |-> id, codehash |-> codehash, creator |-> caller,
                   created_at |-> block_timestamp, deployments |-> 0,
                   is_audited |-> FALSE]
  IN  IF agents.is_paused THEN AgentPanic(obs, "ContractPaused")
      ELSE IF id \in DOMAIN agents.templates
      THEN AgentPanic(obs, "TemplateAlreadyExists")
      ELSE /\ agents' = [agents EXCEPT
                           !.templates = store_template(@, template),
                           !.total_templates = @ + 1]
           /\ last' = [obs EXCEPT !.events =
                         <<[event |-> "template_registered", template_id |-> id,
                            creator |-> caller, codehash |-> codehash]>>]

RegisterInstance(caller, agent_account_id, owner_account_id, template_id, codehash) ==
  LET obs == AgentObservation("register_instance")
  IN  IF agents.is_paused THEN AgentPanic(obs, "ContractPaused")
      ELSE IF caller # owner_account_id THEN AgentPanic(obs, "Unauthorized")
      ELSE IF agent_account_id \in DOMAIN agents.instances
      THEN AgentPanic(obs, "InstanceAlreadyRegistered")
      ELSE IF template_id \notin DOMAIN agents.templates
      THEN AgentPanic(obs, "TemplateNotFound")
      ELSE IF agents.templates[template_id].codehash # codehash
      THEN AgentPanic(obs, "CodehashMismatch")
      ELSE LET instance ==
                 [account_id |-> agent_account_id,
                  owner_account_id |-> owner_account_id,
                  template_id |-> template_id,
                  codehash |-> agents.templates[template_id].codehash,
                  status |-> "Active", last_active_at |-> None,
                  deployed_at |-> block_timestamp, last_attestation |-> None,
                  invocation_count |-> 0]
               stored == store_instance(agents.instances,
                                        agents.instances_by_owner, instance)
           IN  /\ agents' =
                    [agents EXCEPT
                       !.instances = stored.instances,
                       !.instances_by_owner = stored.instances_by_owner,
                       !.templates[template_id].deployments = @ + 1,
                       !.total_deployments = @ + 1]
               /\ last' = [obs EXCEPT !.events =
                             <<[event |-> "instance_registered",
                                agent_account_id |-> agent_account_id,
                                owner |-> owner_account_id,
                                template_id |-> template_id]>>]

DeactivateInstance(caller, agent_account_id) ==
  LET obs == AgentObservation("deactivate_instance")
  IN  IF agents.is_paused THEN AgentPanic(obs, "ContractPaused")
      ELSE IF agent_account_id \notin DOMAIN agents.instances
      THEN AgentPanic(obs, "InstanceNotFound")
      ELSE IF agents.instances[agent_account_id].owner_account_id # caller
      THEN AgentPanic(obs, "Unauthorized")
      ELSE /\ agents' = [agents EXCEPT
                           !.instances[agent_account_id].status = "Deactivated"]
           /\ last' = [obs EXCEPT !.events =
                         <<[event |-> "instance_deactivated",
                            agent_account_id |-> agent_account_id,
                            deactivated_by |-> caller]>>]

verify_instance(agent_account_id) ==
  IF agent_account_id \notin DOMAIN agents.instances
  THEN [valid |-> FALSE, reason |-> Some("Instance not found"),
        is_audited |-> FALSE, attestation |-> None]
  ELSE LET instance == agents.instances[agent_account_id]
       IN  IF instance.template_id \notin DOMAIN agents.templates
           THEN [valid |-> FALSE, reason |-> Some("Template not found"),
                 is_audited |-> FALSE, attestation |-> None]
           ELSE LET template == agents.templates[instance.template_id]
                IN  IF instance.codehash # template.codehash
                    THEN [valid |-> FALSE, reason |-> Some("Codehash mismatch"),
                          is_audited |-> template.is_audited,
                          attestation |-> instance.last_attestation]
                    ELSE [valid |-> TRUE, reason |-> None,
                          is_audited |-> template.is_audited,
                          attestation |-> instance.last_attestation]

VerifyInstance(agent_account_id) ==
  /\ last' = [AgentObservation("verify_instance") EXCEPT
                !.result = Some(verify_instance(agent_account_id))]
  /\ UNCHANGED agents

is_codehash_verified(codehash) == codehash \in agents.verified_codehashes

VerifyCodehash(caller, codehash) ==
  LET obs == AgentObservation("verify_codehash")
  IN  IF caller # agents.owner THEN AgentPanic(obs, "Unauthorized")
      ELSE /\ agents' = [agents EXCEPT !.verified_codehashes = @ \cup {codehash}]
           /\ last' = obs

RecordAttestation(caller, agent_account_id, attestation) ==
  LET obs == AgentObservation("record_attestation")
  IN  IF agents.is_paused THEN AgentPanic(obs, "ContractPaused")
      ELSE IF agent_account_id \notin DOMAIN agents.instances
      THEN AgentPanic(obs, "InstanceNotFound")
      ELSE /\ agents' = [agents EXCEPT
                           !.instances[agent_account_id].last_attestation =
                             Some(attestation)]
           /\ last' = [obs EXCEPT !.events =
                         <<[event |-> "attestation_recorded",
                            agent_account_id |-> agent_account_id,
                            tee_type |-> attestation.tee_type,
                            codehash |-> attestation.codehash]>>]

RecordInvocation(caller, agent_account_id, invocation_type) ==
  LET obs == AgentObservation("record_invocation")
  IN  IF agents.is_paused THEN AgentPanic(obs, "ContractPaused")
      ELSE IF agent_account_id \notin DOMAIN agents.instances
      THEN AgentPanic(obs, "InstanceNotFound")
      ELSE IF /\ caller # agents.instances[agent_account_id].owner_account_id
              /\ caller # agent_account_id
      THEN AgentPanic(obs, "Unauthorized")
      ELSE LET count == agents.instances[agent_account_id].invocation_count + 1
           IN  /\ agents' =
                    [agents EXCEPT
                       !.instances[agent_account_id].invocation_count = count,
                       !.instances[agent_account_id].last_active_at =
                         Some(block_timestamp)]
               /\ last' = [obs EXCEPT
                             !.count = count,
                             !.events =
                               <<[event |-> "invocation_recorded",
                                  agent_account_id |-> agent_account_id,
                                  invocation_type |-> invocation_type,
                                  invocation_count |-> count]>>]

AgentsSetPaused(caller, paused) ==
  LET obs == AgentObservation("set_paused")
  IN  IF caller # agents.owner THEN AgentPanic(obs, "Unauthorized")
      ELSE /\ agents' = [agents EXCEPT !.is_paused = paused]
           /\ last' = [obs EXCEPT !.events = <<emit_contract_paused(paused)>>]

MarkAudited(caller, template_id) ==
  LET obs == AgentObservation("mark_audited")
  IN  IF caller # agents.owner THEN AgentPanic(obs, "Unauthorized")
      ELSE IF template_id \notin DOMAIN agents.templates
      THEN AgentPanic(obs, "TemplateNotFound")
      ELSE /\ agents' =
                [agents EXCEPT
                   !.templates[template_id].is_audited = TRUE,
                   !.verified_codehashes =
                     @ \cup {agents.templates[template_id].codehash}]
           /\ last' = [obs EXCEPT !.events =
                         <<[event |-> "template_audited",
                            template_id |-> template_id]>>]

AgentCalls(E) ==
  \/ \E caller \in E.callers, id \in E.template_ids, codehash \in E.codehashes :
       /\ RegisterTemplate(caller, id, codehash)
       /\ UNCHANGED <<state, block_timestamp, processor, registry>>
  \/ \E caller \in E.callers, agent \in E.agent_accounts,
        owner_account_id \in E.owners, id \in E.template_ids,
        codehash \in E.codehashes :
       /\ RegisterInstance(caller, agent, owner_account_id, id, codehash)
       /\ UNCHANGED <<state, block_timestamp, processor, registry>>
  \/ \E caller \in E.callers, agent \in E.agent_accounts :
       /\ DeactivateInstance(caller, agent)
       /\ UNCHANGED <<state, block_timestamp, processor, registry>>
  \/ \E agent \in E.agent_accounts :
       /\ VerifyInstance(agent)
       /\ UNCHANGED <<state, block_timestamp, processor, registry>>
  \/ \E caller \in E.admin_callers, codehash \in E.codehashes :
       /\ VerifyCodehash(caller, codehash)
       /\ UNCHANGED <<state, block_timestamp, processor, registry>>
  \/ \E caller \in E.callers, agent \in E.agent_accounts,
        attestation \in E.attestations :
       /\ RecordAttestation(caller, agent, attestation)
       /\ UNCHANGED <<state, block_timestamp, processor, registry>>
  \/ \E caller \in E.callers, agent \in E.agent_accounts :
       /\ RecordInvocation(caller, agent, "chat")
       /\ \A a \in DOMAIN agents'.instances :
            agents'.instances[a].invocation_count <= E.max_invocations
       /\ UNCHANGED <<state, block_timestamp, processor, registry>>
  \/ \E caller \in E.admin_callers, paused \in E.pause_flags :
       /\ AgentsSetPaused(caller, paused)
       /\ UNCHANGED <<state, block_timestamp, processor, registry>>
  \/ \E caller \in E.admin_callers, id \in E.template_ids :
       /\ MarkAudited(caller, id)
       /\ UNCHANGED <<state, block_timestamp, processor, registry>>

AgentEnv ==
  [callers |-> {"alice.testnet", "bob.testnet"},
   owners |-> {"alice.testnet"},
   admin_callers |-> {InitialOwner},
   template_ids |-> {"tmpl-1"},
   codehashes |-> {"hash-a", "hash-b"},
   agent_accounts |-> {"my-agent.alice.testnet", "other.alice.testnet"},
   attestations |->
     {[codehash |-> "hash-b", tee_type |-> "intel-tdx", verified |-> TRUE]},
   pause_flags |-> {TRUE, FALSE},
   max_invocations |-> MaxInvocations]

NextAgents == AgentCalls(AgentEnv)

SpecAgents == Init /\ [][NextAgents]_vars

\* ------------------------------------------------------------------------
\* async-ai-processor: properties
\* ------------------------------------------------------------------------
\* the edges of the job status graph, each with the call that takes it
StatusEdges ==
  {<<"Pending", "Processing", "claim_job">>,
   <<"Pending", "Timeout", "claim_job">>,
   <<"Pending", "Timeout", "timeout_stale_jobs">>,
   <<"Processing", "Paused", "checkpoint_progress">>,
   <<"Paused", "Processing", "resume_job">>,
   <<"Processing", "Completed", "complete_job">>,
   <<"Paused", "Completed", "complete_job">>,
   <<"Pending", "Failed", "fail_job">>,
   <<"Processing", "Failed", "fail_job">>,
   <<"Paused", "Failed", "fail_job">>}

JobStatus == {"Pending", "Processing", "Paused", "Completed", "Failed", "Timeout"}

\* the statuses from which a worker's call may move a job
SourcesOf(op) == {s \in JobStatus : \E e \in StatusEdges : e[1] = s /\ e[3] = op}

InvalidTransitionRejection ==
  last'.err = "InvalidStatusTransition" /\ UNCHANGED processor

\* a worker's call on an existing job in a status the call does not start from
Attempted(caller, job_id, op) ==
  /\ ~processor.is_paused
  /\ caller \in processor.workers
  /\ job_id \in DOMAIN processor.jobs
  /\ processor.jobs[job_id].status \notin SourcesOf(op)

\* C33: every change of a job's status is an edge of the status graph taken by
\* the call of that edge (Pending->Processing by claim_job, Pending->Timeout
\* by a timeout, Processing->Paused by checkpoint_progress, Paused->Processing
\* by resume_job, Processing|Paused->Completed by complete_job, non-terminal->
\* Failed by fail_job); a Completed, Failed or Timeout job never changes
\* status; every other attempted transition fails with
\* InvalidStatusTransition and changes nothing
C33_JobStatusGraph ==
  [][ /\ \A id \in DOMAIN processor.jobs \cap DOMAIN processor'.jobs :
           processor.jobs[id].status # processor'.jobs[id].status =>
             /\ <<processor.jobs[id].status, processor'.jobs[id].status,
                  last'.op>> \in StatusEdges
             /\ processor.jobs[id].status \notin {"Completed", "Failed", "Timeout"}
      /\ \A w \in {Worker1}, j \in DOMAIN processor.jobs :
           /\ (last'.op = "checkpoint_progress"
                 /\ Attempted(w, j, "checkpoint_progress")
                 /\ CheckpointProgress(w, j, 100, "step", "{}"))
                => InvalidTransitionRejection
           /\ (last'.op = "resume_job" /\ Attempted(w, j, "resume_job")
                 /\ ResumeJob(w, j))
                => InvalidTransitionRejection
           /\ (last'.op = "complete_job"
                 /\ Attempted(w, j, "complete_job")
                 /\ CompleteJob(w, j, "result", Some("tee")))
                => InvalidTransitionRejection
           /\ (last'.op = "fail_job" /\ Attempted(w, j, "fail_job")
                 /\ FailJob(w, j, "error"))
                => InvalidTransitionRejection
    ]_vars

\* a job has timed out and a worker's attempt to fail it was rejected
C33_Witness ==
  /\ last.op = "fail_job"
  /\ last.err = "InvalidStatusTransition"
  /\ \E id \in DOMAIN processor.jobs : processor.jobs[id].status = "Timeout"

\* the position of an id in a queue
IndexOf(q, x) == CHOOSE i \in 1..Len(q) : q[i] = x

OlderThanTimeout(job) ==
  processor_now - job.created_at > processor.config.job_timeout_ns

\* C34: a successful claim_job returns a job that was pending and not older
\* than job_timeout_ns, sets its status to Processing and its worker to the
\* caller, a registered worker, and removes it from the pending queue; every
\* pending job older than the timeout that was scanned before it is set to
\* Timeout and removed from the pending queue
C34_ClaimJob ==
  [][(last'.op = "claim_job" /\ last'.err = "none"
        /\ block_timestamp' = block_timestamp) =>
       LET queue == processor.pending_jobs
           claimed == Unwrap(last'.job_id)
       IN  /\ SeqContains(queue, claimed)
           /\ processor.jobs[claimed].status = "Pending"
           /\ ~OlderThanTimeout(processor.jobs[claimed])
           /\ processor'.jobs[claimed].status = "Processing"
           /\ IsSome(processor'.jobs[claimed].worker)
           /\ Unwrap(processor'.jobs[claimed].worker) \in processor.workers
           /\ last'.job = Some(processor'.jobs[claimed])
           /\ ~SeqContains(processor'.pending_jobs, claimed)
           /\ \A i \in 1..(IndexOf(queue, claimed) - 1) :
                OlderThanTimeout(processor.jobs[queue[i]]) =>
                  /\ processor'.jobs[queue[i]].status = "Timeout"
                  /\ ~SeqContains(processor'.pending_jobs, queue[i])
    ]_vars

\* the worker has claimed the second job of the queue, the first having
\* timed out at the same block time
C34_Witness ==
  /\ last.op = "claim_job"
  /\ last.err = "none"
  /\ \E id \in DOMAIN processor.jobs :
       /\ processor.jobs[id].status = "Timeout"
       /\ processor.jobs[id].updated_at = processor_now
       /\ id[3] < Unwrap(last.job_id)[3]
       /\ processor.jobs[Unwrap(last.job_id)].status = "Processing"

\* the jobs of an account in a non-terminal status, read from the job map
ActiveJobs(a) ==
  {id \in DOMAIN processor.jobs :
     /\ processor.jobs[id].owner = a
     /\ processor.jobs[id].status \in {"Pending", "Processing", "Paused"}}

WithinLimit ==
  \A a \in JobsEnv.users :
    Cardinality(ActiveJobs(a)) <= processor.config.max_active_jobs_per_user

\* C35: with the configuration unchanged since the first job, no account owns
\* more than max_active_jobs_per_user jobs in a non-terminal status; a
\* submit_job by a caller who already has that many fails with
\* ActiveJobLimitExceeded and changes nothing
C35_ActiveJobLimit ==
  [][ /\ WithinLimit'
      /\ \A u \in JobsEnv.users, d \in JobsEnv.deposits :
           ( /\ last'.op = "submit_job"
             /\ ~processor.is_paused
             /\ d >= processor.config.min_deposit
             /\ Cardinality(ActiveJobs(u)) >=
                  processor.config.max_active_jobs_per_user
             /\ SubmitJob(u, "document-analysis", "{}", d) )
           => (last'.err = "ActiveJobLimitExceeded" /\ UNCHANGED processor)
    ]_vars

\* a second job was refused while the first was being processed
C35_Witness ==
  /\ last.op = "submit_job"
  /\ last.err = "ActiveJobLimitExceeded"
  /\ \E id \in DOMAIN processor.jobs :
       processor.jobs[id].status \in {"Processing", "Paused"}
  /\ processor.job_nonce < MaxLimitJobs

\* cancel_job on an existing job, by its owner or by somebody else
CancelAttempt(u, j) ==
  /\ last'.op = "cancel_job"
  /\ ~processor.is_paused
  /\ CancelJob(u, j)

Cancellable(u, j) ==
  processor.jobs[j].owner = u /\ processor.jobs[j].status = "Pending"

\* the job is gone from the job map, its owner's set and the pending queue
CancelRemoves(u, j) ==
  /\ last'.err = "none"
  /\ j \notin DOMAIN processor'.jobs
  /\ ~SeqContains(processor'.jobs_by_owner[u], j)
  /\ ~SeqContains(processor'.pending_jobs, j)

\* a call by a non-owner is Unauthorized, a call on a job that is not Pending
\* is an InvalidStatusTransition; neither changes state or refunds
CancelRejects(u, j) ==
  /\ last'.err = IF processor.jobs[j].owner # u THEN "Unauthorized"
                 ELSE "InvalidStatusTransition"
  /\ UNCHANGED processor
  /\ last'.transfers = <<>>

\* C36 as stated: cancel_job succeeds only for the job's owner and only while
\* the job is Pending; on success the job is removed from the job map, the
\* owner's set and the pending queue and exactly one refund transfer of the
\* stored deposit to the owner is scheduled; other calls are rejected
\* without state change or refund
C36_CancelRefundsOnce ==
  [][\A u \in JobsEnv.users, j \in DOMAIN processor.jobs :
       CancelAttempt(u, j) =>
         IF Cancellable(u, j)
         THEN /\ CancelRemoves(u, j)
              /\ last'.transfers =
                   <<[receiver |-> u, amount |-> processor.jobs[j].deposit]>>
         ELSE CancelRejects(u, j)
    ]_vars

\* C36 amended: as above, but the refund transfer is scheduled only when the
\* stored deposit is positive; cancelling a job stored with a zero deposit
\* schedules no transfer
C36_CancelRefundsPositiveDeposit ==
  [][\A u \in JobsEnv.users, j \in DOMAIN processor.jobs :
       CancelAttempt(u, j) =>
         IF Cancellable(u, j)
         THEN /\ CancelRemoves(u, j)
              /\ last'.transfers =
                   IF processor.jobs[j].deposit > 0
                   THEN <<[receiver |-> u,
                           amount |-> processor.jobs[j].deposit]>>
                   ELSE <<>>
         ELSE CancelRejects(u, j)
    ]_vars

\* a job stored with a zero deposit was cancelled and nothing was refunded
C36_Witness ==
  /\ last.op = "cancel_job"
  /\ last.err = "none"
  /\ last.transfers = <<>>
  /\ processor.jobs = <<>>
  /\ processor.config.min_deposit = 0

\* C38: the pending queue holds exactly the ids of the jobs whose status is
\* Pending: every queued id has a job record with status Pending, and every
\* Pending job is queued
C38_PendingQueueIsPendingJobs ==
  /\ \A i \in 1..Len(processor.pending_jobs) :
       /\ processor.pending_jobs[i] \in DOMAIN processor.jobs
       /\ processor.jobs[processor.pending_jobs[i]].status = "Pending"
  /\ \A id \in DOMAIN processor.jobs :
       processor.jobs[id].status = "Pending" =>
         SeqContains(processor.pending_jobs, id)

\* a worker has failed a job that nobody had claimed, and the queue is empty
C38_Witness ==
  /\ last.op = "fail_job"
  /\ last.err = "none"
  /\ processor.pending_jobs = <<>>
  /\ \E id \in DOMAIN processor.jobs :
       /\ processor.jobs[id].status = "Failed"
       /\ processor.jobs[id].worker = None

\* C39: a claim_job that ends with NoPendingJobs found the queue empty or
\* every queued job older than the timeout, and is rolled back: no job
\* changes and the pending queue is as before the call; a job becomes Timeout
\* only in a successful claim_job or in timeout_stale_jobs
C39_NoPendingJobsRollsBack ==
  [][ /\ ( /\ last'.op = "claim_job"
           /\ last'.err = "NoPendingJobs"
           /\ block_timestamp' = block_timestamp )
         => /\ \A i \in 1..Len(processor.pending_jobs) :
                 OlderThanTimeout(processor.jobs[processor.pending_jobs[i]])
            /\ processor'.jobs = processor.jobs
            /\ processor'.pending_jobs = processor.pending_jobs
      /\ \A id \in DOMAIN processor.jobs \cap DOMAIN processor'.jobs :
           ( /\ processor.jobs[id].status # "Timeout"
             /\ processor'.jobs[id].status = "Timeout" )
           => /\ last'.op \in {"claim_job", "timeout_stale_jobs"}
              /\ last'.err = "none"
    ]_vars

\* a claim found only a stale job, which is still Pending and still queued
C39_Witness ==
  /\ last.op = "claim_job"
  /\ last.err = "NoPendingJobs"
  /\ Len(processor.pending_jobs) > 0
  /\ \A i \in 1..Len(processor.pending_jobs) :
       /\ OlderThanTimeout(processor.jobs[processor.pending_jobs[i]])
       /\ processor.jobs[processor.pending_jobs[i]].status = "Pending"

\* ------------------------------------------------------------------------
\* grant-registry: properties
\* ------------------------------------------------------------------------
\* the applications of a program whose current status is Funded
FundedApplications(p) ==
  {a \in DOMAIN registry.applications :
     /\ registry.applications[a].program_id = p
     /\ registry.applications[a].status = "Funded"}

\* C37: each program's funded_count equals the number of that program's
\* applications whose current status is Funded; in particular it never
\* exceeds application_count
C37_FundedCountIsFundedApplications ==
  \A p \in DOMAIN registry.programs :
    /\ registry.programs[p].funded_count = Cardinality(FundedApplications(p))
    /\ registry.programs[p].funded_count <= registry.programs[p].application_count

\* ------------------------------------------------------------------------
\* shade-agent-registry: properties
\* ------------------------------------------------------------------------
CodehashMatchesTemplate(a) ==
  /\ agents.instances[a].template_id \in DOMAIN agents.templates
  /\ agents.instances[a].codehash =
       agents.templates[agents.instances[a].template_id].codehash

\* C40: after every step each registered instance carries the codehash of its
\* template, a template once registered stays registered with the codehash it
\* was registered with, and verify_instance answers valid = true for every
\* registered instance, deactivated ones included, and valid = false exactly
\* for the accounts that are not registered.
C40_InstanceCodehashIsTemplateCodehash ==
  [][ /\ \A t \in DOMAIN agents.templates :
           /\ t \in DOMAIN agents'.templates
           /\ agents'.templates[t].codehash = agents.templates[t].codehash
      /\ \A a \in DOMAIN agents'.instances : CodehashMatchesTemplate(a)'
      /\ \A a \in AgentEnv.agent_accounts :
           verify_instance(a)'.valid <=> a \in DOMAIN agents'.instances ]_vars

C40_Witness ==
  /\ last.op = "verify_instance"
  /\ last.result # None
  /\ last.result[1].valid
  /\ agents.templates["tmpl-1"].is_audited
  /\ \E a \in DOMAIN agents.instances :
       /\ agents.instances[a].status = "Deactivated"
       /\ agents.instances[a].last_attestation # None
       /\ agents.instances[a].last_attestation[1].codehash #
            agents.instances[a].codehash
       /\ verify_instance(a).valid
  /\ \E b \in AgentEnv.agent_accounts :
       /\ b \notin DOMAIN agents.instances
       /\ ~verify_instance(b).valid

====
